---------------------------- MODULE Spec2Model ----------------------------
(***************************************************************************)
(* A model of the orchestration code of the Maersk rate-extraction         *)
(* repository: the rate-limited agent call helper of MaerskCarrier, the     *)
(* retry loop of the rate-extraction test, the login loop, and the         *)
(* pipelines extractMaerskRates, main (src/main.js), main (index script)   *)
(* and advancedAutomationExample.  The external agent, the browser, the    *)
(* clock and the file system are the environment: each of their calls      *)
(* returns or throws, chosen nondeterministically.                         *)
(*                                                                         *)
(* One behaviour runs one script, chosen in Init.                          *)
(***************************************************************************)
EXTENDS Integers, Sequences, FiniteSets, TLC

VARIABLES
    script,          \* which entry point this behaviour runs
    \* ---- MaerskCarrier rate-limit state and the observed helper calls
    clock,           \* Date.now(), in ms
    lastClaudeCall,  \* this.lastClaudeCall
    calls,           \* history: one record per call of the helper
    \* ---- retryOperation
    maxAttempts,     \* parameter maxAttempts
    rAttempt,        \* loop variable attempt
    rPc,             \* position in retryOperation
    rLastError,      \* lastError
    rTrace,          \* history: each attempt's result and each delay, in order
    rOutcome,        \* how retryOperation ended
    \* ---- pipelines
    env,             \* process.env: which required variables are set
    pc,              \* position in the running script
    carrier,         \* the carrier object as the script sees it
    attempt,         \* login loop variable attempt
    loginSuccess,    \* loginSuccess
    caught,          \* the error in flight or being handled
    trace,           \* history: calls made to the collaborators, in order
    succeeded,       \* history: the stages that reported success
    failed,          \* history: the first stage that failed, and its error
    doc,             \* content of maersk-rates.json
    outcome,         \* how the pipeline function ended
    exited,          \* the process has ended
    exitCode,        \* process exit code
    pageAnalysis,    \* const pageAnalysis = await carrier.verifyBookingPage()
    formResult,      \* const formResult = await carrier.fillBookingForm(booking)
    submitResult,    \* const submitResult = await carrier.submitBookingForm()
    \* ---- extractRates run repeatedly on the same page
    agentResponse,   \* what agent.execute and page.extract answer
    documents,       \* history: the jsonResult of each run, in order
    \* ---- fillBookingForm, the rate-extraction test, the Browser Use carrier
    booking,         \* the bookingDetails passed to fillBookingForm
    cleanups,        \* the calls of cleanup() in flight or finished
    agent,           \* this.agent of the Browser Use carrier
    contexts,        \* the browser contexts that are live
    currentUrl,      \* the URL read by hybridLogin after the booking page
    loginResult,     \* the value hybridLogin returned
    rDelays          \* history: the length of each delay of retryOperation

rlVars    == <<clock, lastClaudeCall, calls>>
retryVars == <<maxAttempts, rAttempt, rPc, rLastError, rTrace, rOutcome,
               rDelays>>
pipeVars  == <<env, pc, carrier, attempt, loginSuccess, caught, trace,
               succeeded, failed, doc, outcome, exited, exitCode>>
stageVars == <<pageAnalysis, formResult, submitResult>>
twiceVars == <<agentResponse, documents>>
extraVars == <<booking, cleanups, agent, contexts, currentUrl, loginResult>>
vars      == <<script, rlVars, retryVars, pipeVars, stageVars, twiceVars,
               extraVars>>

-----------------------------------------------------------------------------
(* Bounds of the model *)

\* helper calls observed in one behaviour
MaxCalls == 3
\* clock steps observed in one behaviour
MaxTicks == 6
\* granularity of the clock
TickMs == 30000
\* Date.now() when the carrier is constructed
StartClock == 120000
\* largest maxAttempts passed to retryOperation
MaxAttemptsBound == 3
\* runs of extractRates on the same page observed in one behaviour
MaxRuns == 2
\* calls of initBrowser and close made on one Browser Use carrier
MaxCarrierCalls == 4

(* Program constants *)

claudeRateLimit == 60000
maxLoginAttempts == 2
loginRetryDelayMs == 3000
delayMs == 5000
defaultMaxAttempts == 3

None == "none"

-----------------------------------------------------------------------------
(* Error messages raised by the agent, as character sequences *)

Msg429       == <<"H", "T", "T", "P", " ", "4", "2", "9">>
MsgRateLimit == <<"r", "a", "t", "e", "_", "l", "i", "m", "i", "t", "_",
                  "e", "r", "r", "o", "r">>
MsgTimeout   == <<"t", "i", "m", "e", "o", "u", "t">>
MsgThrottled == <<"R", "a", "t", "e", " ", "l", "i", "m", "i", "t", "e", "d">>

AgentErrors == {Msg429, MsgRateLimit, MsgTimeout, MsgThrottled}

\* String.prototype.includes
Includes(s, sub) ==
    \E i \in 1..(Len(s) - Len(sub) + 1) : SubSeq(s, i, i + Len(sub) - 1) = sub

\* error.message.includes('429') || error.message.includes('rate_limit')
IsRateLimitSignature(msg) ==
    \/ Includes(msg, <<"4", "2", "9">>)
    \/ Includes(msg, <<"r", "a", "t", "e", "_", "l", "i", "m", "i", "t">>)

-----------------------------------------------------------------------------
(* _claudeCallWithRateLimit / _agentCallWithRateLimit                      *)

\* the interval compared in seconds instead of milliseconds
DeniedAtInSeconds(now, last) == now - last < claudeRateLimit \div 1000

\* the interval check with <= in place of <
DeniedAtInclusive(now, last) == now - last <= claudeRateLimit

\* timeSinceLastCall < this.claudeRateLimit
DeniedAt(now, last) == now - last < claudeRateLimit

\* no extra cooldown after a rate-limit error
CooldownNone(now) == now

\* this.lastClaudeCall = now + this.claudeRateLimit
Cooldown(now) == now + claudeRateLimit

\* a call record whose rateLimited flag is always false
CallRecordFlagLost(now, allowed, state, rateLimited, err, endAt) ==
    [at |-> now, allowed |-> allowed, state |-> state,
     rateLimited |-> FALSE, err |-> err, endAt |-> endAt]

\* an allowed call that leaves the timestamp as it was
ReservedNot(now, last) == last

\* this.lastClaudeCall = now, before the agent is awaited
Reserved(now, last) == now

\* a denied call that moves the timestamp to its own time
DeniedPostpones(now, last) == now

\* the denied branch returns without assigning this.lastClaudeCall
DeniedKeeps(now, last) == last

CallRecord(now, allowed, state, rateLimited, err, endAt) ==
    [at |-> now, allowed |-> allowed, state |-> state,
     rateLimited |-> rateLimited, err |-> err, endAt |-> endAt]

Pending == {i \in 1..Len(calls) : calls[i].state = "pending"}

\* The helper up to its first await: the interval check, the fallback
\* return when denied, else the timestamp update and the agent invocation.
HelperCall ==
    /\ script = "helper"
    /\ Len(calls) < MaxCalls
    /\ LET now == clock IN
       IF DeniedAt(now, lastClaudeCall)
       THEN /\ calls' = Append(calls,
                  CallRecord(now, FALSE, "returned", TRUE, <<>>, now))
            /\ lastClaudeCall' = DeniedKeeps(now, lastClaudeCall)
       ELSE /\ lastClaudeCall' = Reserved(now, lastClaudeCall)
            /\ calls' = Append(calls,
                  CallRecord(now, TRUE, "pending", FALSE, <<>>, now))
    /\ UNCHANGED <<script, stageVars, twiceVars, extraVars, clock, retryVars, pipeVars>>

\* agent.execute resolves: { message: result.message, rateLimited: false }
HelperAgentReturns(i) ==
    /\ i \in Pending
    /\ calls' = [calls EXCEPT ![i].state = "returned", ![i].endAt = clock]
    /\ UNCHANGED <<script, stageVars, twiceVars, extraVars, clock, lastClaudeCall, retryVars, pipeVars>>

\* agent.execute rejects: the catch block
HelperAgentThrows(i, msg) ==
    /\ i \in Pending
    /\ IF IsRateLimitSignature(msg)
       THEN /\ lastClaudeCall' = Cooldown(calls[i].at)
            /\ calls' = [calls EXCEPT ![i].state = "returned",
                                      ![i].rateLimited = TRUE,
                                      ![i].err = msg,
                                      ![i].endAt = clock]
       ELSE /\ calls' = [calls EXCEPT ![i].state = "thrown",
                                      ![i].err = msg,
                                      ![i].endAt = clock]
            /\ UNCHANGED lastClaudeCall
    /\ UNCHANGED <<script, stageVars, twiceVars, extraVars, clock, retryVars, pipeVars>>

\* time passes
Tick ==
    /\ script \in {"helper", "twice"}
    /\ \E d \in 1..2 :
          /\ clock + d * TickMs <= StartClock + MaxTicks * TickMs
          /\ clock' = clock + d * TickMs
    /\ UNCHANGED <<script, stageVars, twiceVars, extraVars, lastClaudeCall, calls, retryVars, pipeVars>>

-----------------------------------------------------------------------------
(* retryOperation(operation, maxAttempts, delayMs)                         *)

OpErrors == {"E_op1", "E_op2"}

\* a delay after every failed attempt, the last one included
RetryDelaysAlways(a, n) == TRUE

\* attempt < maxAttempts: a delay follows the failed attempt
RetryDelays(a, n) == a < n

\* new Error(`Operation failed after ${maxAttempts} attempts. Last error: ...`)
WrappedError(n, last) == [kind |-> "thrown", attempts |-> n, last |-> last]

\* await delay(delayMs): the same length after every attempt
DelayLength(a) == delayMs

\* the loop condition with < in place of <=
LoopContinuesStrict(a, n) == a < n

\* attempt <= maxAttempts: the loop condition
LoopContinues(a, n) == a <= n

\* an iteration that resolves but goes on with the loop instead of returning
RetryAttemptSucceedsNoReturn ==
    /\ script = "retry"
    /\ rPc = "loop"
    /\ LoopContinues(rAttempt, maxAttempts)
    /\ rTrace' = Append(rTrace, "ok")
    /\ rAttempt' = rAttempt + 1
    /\ IF LoopContinues(rAttempt + 1, maxAttempts)
       THEN UNCHANGED <<rPc, rOutcome>>
       ELSE /\ rPc' = "done"
            /\ rOutcome' = WrappedError(maxAttempts, rLastError)
    /\ UNCHANGED <<script, stageVars, twiceVars, extraVars, rlVars, maxAttempts,
                   rLastError, rDelays, pipeVars>>

\* one iteration whose await operation() resolves: return result
RetryAttemptSucceeds ==
    /\ script = "retry"
    /\ rPc = "loop"
    /\ LoopContinues(rAttempt, maxAttempts)
    /\ rTrace' = Append(rTrace, "ok")
    /\ rOutcome' = [kind |-> "returned", attempts |-> rAttempt, last |-> rLastError]
    /\ rPc' = "done"
    /\ UNCHANGED <<script, stageVars, twiceVars, extraVars, rlVars, maxAttempts, rAttempt, rLastError, rDelays, pipeVars>>

\* one iteration whose await operation() rejects: the catch block, attempt++
\* and, when the loop condition then fails, the throw after the loop
RetryAttemptFails(e) ==
    /\ script = "retry"
    /\ rPc = "loop"
    /\ LoopContinues(rAttempt, maxAttempts)
    /\ rLastError' = e
    /\ rTrace' = IF RetryDelays(rAttempt, maxAttempts)
                 THEN rTrace \o <<"fail", "delay">>
                 ELSE Append(rTrace, "fail")
    /\ rDelays' = IF RetryDelays(rAttempt, maxAttempts)
                  THEN Append(rDelays, DelayLength(rAttempt))
                  ELSE rDelays
    /\ rAttempt' = rAttempt + 1
    /\ IF LoopContinues(rAttempt + 1, maxAttempts)
       THEN UNCHANGED <<rPc, rOutcome>>
       ELSE /\ rPc' = "done"
            /\ rOutcome' = WrappedError(maxAttempts, e)
    /\ UNCHANGED <<script, stageVars, twiceVars, extraVars, rlVars, maxAttempts, pipeVars>>

-----------------------------------------------------------------------------
(* MaerskCarrier (Stagehand): the methods the pipelines call               *)

Count(ev, seq) == Cardinality({i \in DOMAIN seq : seq[i] = ev})

\* the process received SIGINT
Interrupted == Count("SIGINT", trace) > 0

EnvChoices ==
    {[MAERSK_USERNAME |-> u, MAERSK_PASSWORD |-> p,
      ANTHROPIC_API_KEY |-> a, OPENAI_API_KEY |-> o] :
        u \in BOOLEAN, p \in BOOLEAN, a \in BOOLEAN, o \in BOOLEAN}

\* a constructor that accepts any environment
ConstructorNeverThrows(e) == FALSE

\* constructor: throws unless username, password and ANTHROPIC_API_KEY are set
ConstructorThrows(e) ==
    \/ ~e.MAERSK_USERNAME \/ ~e.MAERSK_PASSWORD
    \/ ~e.ANTHROPIC_API_KEY

HasStagehand(c) == c \in {"stagehandOnly", "ready"}
HasPage(c)      == c = "ready"

\* initBrowser: new Stagehand, await stagehand.init(), page, agent
InitBrowserOutcomes ==
    {[carrier |-> "ready",         err |-> None],
     [carrier |-> "stagehandOnly", err |-> "E_init"]}

\* close: if (this.stagehand) await this.stagehand.close()
CloseEvents(c) == IF HasStagehand(c) THEN {"close", "close!"} ELSE {"close"}

\* takeScreenshot: if (this.page) await this.page.screenshot(...)
ScreenshotEvents(c) ==
    IF HasPage(c) THEN {"takeScreenshot", "takeScreenshot!"}
                  ELSE {"takeScreenshot"}

\* a catch block whose takeScreenshot is awaited outside any try: the
\* screenshot's error replaces the one being handled
AfterUnguardedShot(orig, shot) == IF shot = "takeScreenshot!" THEN "E_shot" ELSE orig

\* a takeScreenshot inside try/catch: the handled error stays
AfterGuardedShot(orig, shot) == orig

\* hybridLogin: returns true or throws
HybridLoginOutcomes ==
    {[ret |-> "true", err |-> None], [ret |-> "throw", err |-> "E_login"],
     [ret |-> "throw", err |-> "E_agent_429"]}

\* error.message of an error thrown by agent.execute inside a stage
AgentMessage(err) == IF err = "E_agent_429" THEN Msg429 ELSE <<>>

IsRateLimitError(err) == IsRateLimitSignature(AgentMessage(err))

\* history: what a rejected hybridLogin adds to the trace
ErrorEvents(err) == IF IsRateLimitError(err) THEN <<"rateLimitError">> ELSE <<>>

\* verifyBookingPage: the extracted analysis, or the extract error rethrown
VerifyOutcomes ==
    {[ret |-> "analysis", hasBookingForm |-> f, hasLocationFields |-> l,
      err |-> None] : f \in BOOLEAN, l \in BOOLEAN}
    \cup {[ret |-> "throw", hasBookingForm |-> FALSE,
           hasLocationFields |-> FALSE, err |-> "E_verify"]}

\* fillBookingForm: canContinue true or false, or an agent step throws and
\* the catch block takes a screenshot and rethrows
FillOutcomes(c) ==
    {[ret |-> "result", canContinue |-> b, err |-> None, orig |-> None,
      events |-> <<>>] : b \in BOOLEAN}
    \cup {[ret |-> "throw", canContinue |-> FALSE,
           err |-> AfterUnguardedShot("E_fill", sh), orig |-> "E_fill",
           events |-> <<sh>>] : sh \in ScreenshotEvents(c)}

\* submitBookingForm: { success: true }, or the error rethrown
SubmitOutcomes ==
    {[ret |-> "result", success |-> TRUE, err |-> None],
     [ret |-> "throw", success |-> FALSE, err |-> "E_submit"]}

\* the fields of the jsonResult extractRates returns
RateResultFields ==
    {"success", "extractionTimestamp", "source", "claudeAnalysis",
     "rateData", "summary"}

\* extractRates: jsonResult, or the catch block takes a screenshot and rethrows
RatesOutcomes(c) ==
    {[ret |-> "result", err |-> None, orig |-> None, events |-> <<>>]}
    \cup {[ret |-> "throw", err |-> AfterUnguardedShot("E_rates", sh),
           orig |-> "E_rates", events |-> <<sh>>] : sh \in ScreenshotEvents(c)}

\* the value of pageAnalysis before and after verifyBookingPage returned
NoAnalysis ==
    [returned |-> FALSE, hasBookingForm |-> FALSE, hasLocationFields |-> FALSE]
Analysis(o) ==
    [returned |-> TRUE, hasBookingForm |-> o.hasBookingForm,
     hasLocationFields |-> o.hasLocationFields]

\* the value of formResult before and after fillBookingForm returned
NoFormResult == [returned |-> FALSE, canContinue |-> FALSE]
FormResult(o) == [returned |-> TRUE, canContinue |-> o.canContinue]

\* the value of submitResult before and after submitBookingForm returned
NoSubmitResult == [returned |-> FALSE, success |-> FALSE]
SubmitResult(o) == [returned |-> TRUE, success |-> o.success]

\* the form check with either flag sufficing
FormPresentEither(a) == a.hasBookingForm \/ a.hasLocationFields

\* if (pageAnalysis.hasBookingForm && pageAnalysis.hasLocationFields)
FormPresent(a) == a.hasBookingForm /\ a.hasLocationFields

-----------------------------------------------------------------------------
(* The login loop of extractMaerskRates and of main                        *)

\* a loop that waits and retries after the final attempt too
LoginRetriesAlways(a) == TRUE

\* attempt < maxLoginAttempts: wait 3000 ms and retry, else rethrow
LoginRetries(a) == a < maxLoginAttempts

\* one iteration; exit is how the loop goes on after it
LoginLoopStep(a, o) ==
    CASE o.ret = "true" ->
           [loginSuccess |-> TRUE, events |-> <<"hybridLogin">>, exit |-> "success"]
      [] o.ret = "false" ->
           [loginSuccess |-> FALSE, events |-> <<"hybridLogin">>,
            exit |-> IF LoopContinues(a + 1, maxLoginAttempts)
                     THEN "again" ELSE "allFailed"]
      [] OTHER ->
           IF LoginRetries(a)
           THEN [loginSuccess |-> FALSE,
                 events |-> <<"hybridLogin">> \o ErrorEvents(o.err)
                               \o <<"wait3000">>,
                 exit |-> "again"]
           ELSE [loginSuccess |-> FALSE,
                 events |-> <<"hybridLogin">> \o ErrorEvents(o.err),
                 exit |-> "rethrow"]

-----------------------------------------------------------------------------
(* extractMaerskRates, called directly ("extract") or by the index script  *)
(* ("index")                                                               *)

ExtractScripts == {"extract", "index"}

Fail(stage, err) == [stage |-> stage, err |-> err]
NoFailure        == Fail(None, None)

\* the first failure of a run is the one recorded
Record(stage, err) == IF failed = NoFailure THEN Fail(stage, err) ELSE failed

\* the document written by the success path: rateResults, success: true
SuccessDocument == [written |-> TRUE, success |-> TRUE, error |-> None]

\* an error document that reports success
ErrorDocumentSuccess(err) == [written |-> TRUE, success |-> TRUE, error |-> err]

\* the document written by the catch block: errorResult
ErrorDocument(err) == [written |-> TRUE, success |-> FALSE, error |-> err]

NoDocument == [written |-> FALSE, success |-> FALSE, error |-> None]

\* lines 12-19: the environment check
X_EnvCheck ==
    /\ script \in ExtractScripts
    /\ pc = "x_env"
    /\ IF ~env.MAERSK_USERNAME \/ ~env.MAERSK_PASSWORD
       THEN /\ caught' = "E_env_credentials"
            /\ failed' = Record("config", "E_env_credentials")
            /\ pc' = "x_catch"
       ELSE IF ~env.ANTHROPIC_API_KEY
       THEN /\ caught' = "E_env_key"
            /\ failed' = Record("config", "E_env_key")
            /\ pc' = "x_catch"
       ELSE /\ pc' = "x_init"
            /\ UNCHANGED <<caught, failed>>
    /\ UNCHANGED <<script, stageVars, twiceVars, extraVars, rlVars, retryVars, env, carrier, attempt,
                   loginSuccess, trace, succeeded, doc, outcome, exited,
                   exitCode>>

\* lines 32-37: carrier = new MaerskCarrier(); await carrier.initBrowser(false)
X_InitBrowser ==
    /\ script \in ExtractScripts
    /\ pc = "x_init"
    /\ IF ConstructorThrows(env)
       THEN /\ caught' = "E_constructor"
            /\ failed' = Record("config", "E_constructor")
            /\ pc' = "x_catch"
            /\ UNCHANGED <<carrier, trace, succeeded>>
       ELSE \E o \in InitBrowserOutcomes :
            /\ carrier' = o.carrier
            /\ trace' = Append(trace, "initBrowser")
            /\ IF o.err = None
               THEN /\ pc' = "x_login"
                    /\ succeeded' = succeeded \cup {"initBrowser"}
                    /\ UNCHANGED <<caught, failed>>
               ELSE /\ pc' = "x_catch"
                    /\ caught' = o.err
                    /\ failed' = Record("initBrowser", o.err)
                    /\ UNCHANGED succeeded
    /\ UNCHANGED <<script, stageVars, twiceVars, extraVars, rlVars, retryVars, env, attempt, loginSuccess,
                   doc, outcome, exited, exitCode>>

\* lines 46-73: one iteration of the login loop and, when the loop ends,
\* the check of loginSuccess
X_LoginAttempt ==
    /\ script \in ExtractScripts
    /\ pc = "x_login"
    /\ LoopContinues(attempt, maxLoginAttempts) /\ ~loginSuccess
    /\ \E o \in HybridLoginOutcomes :
         LET step == LoginLoopStep(attempt, o) IN
         /\ trace' = trace \o step.events
         /\ loginSuccess' = step.loginSuccess
         /\ attempt' = attempt + 1
         /\ CASE step.exit = "success" ->
                   /\ pc' = "x_verify"
                   /\ succeeded' = succeeded \cup {"login"}
                   /\ UNCHANGED <<caught, failed>>
              [] step.exit = "again" ->
                   UNCHANGED <<pc, succeeded, caught, failed>>
              [] step.exit = "allFailed" ->
                   /\ pc' = "x_catch"
                   /\ caught' = "E_all_logins_failed"
                   /\ failed' = Record("login", "E_all_logins_failed")
                   /\ UNCHANGED succeeded
              [] OTHER ->
                   /\ pc' = "x_catch"
                   /\ caught' = o.err
                   /\ failed' = Record("login", o.err)
                   /\ UNCHANGED succeeded
    /\ UNCHANGED <<script, stageVars, twiceVars, extraVars, rlVars, retryVars, env, carrier, doc, outcome,
                   exited, exitCode>>

\* lines 77-99: navigation if needed, verifyBookingPage, the form check
X_Verify ==
    /\ script \in ExtractScripts
    /\ pc = "x_verify"
    /\ \E o \in VerifyOutcomes :
         /\ pageAnalysis' = IF o.ret = "throw" THEN pageAnalysis ELSE Analysis(o)
         /\ trace' = Append(trace, "verifyBookingPage")
         /\ IF o.ret = "throw"
            THEN /\ pc' = "x_catch"
                 /\ caught' = o.err
                 /\ failed' = Record("verifyBookingPage", o.err)
                 /\ UNCHANGED succeeded
            ELSE IF FormPresent(o)
            THEN /\ pc' = "x_fill"
                 /\ succeeded' = succeeded \cup {"verifyBookingPage"}
                 /\ UNCHANGED <<caught, failed>>
            ELSE /\ pc' = "x_catch"
                 /\ caught' = "E_no_booking_form"
                 /\ failed' = Record("verifyBookingPage", "E_no_booking_form")
                 /\ UNCHANGED succeeded
    /\ UNCHANGED <<script, formResult, submitResult, twiceVars, extraVars, rlVars, retryVars, env, carrier, attempt,
                   loginSuccess, doc, outcome, exited, exitCode>>

\* lines 103-106 and 143-145: fillBookingForm and the canContinue check
X_Fill ==
    /\ script \in ExtractScripts
    /\ pc = "x_fill"
    /\ \E o \in FillOutcomes(carrier) :
         /\ formResult' = IF o.ret = "throw" THEN formResult ELSE FormResult(o)
         /\ trace' = Append(trace, "fillBookingForm") \o o.events
         /\ IF o.ret = "throw"
            THEN /\ pc' = "x_catch"
                 /\ caught' = o.err
                 /\ failed' = Record("fillBookingForm", o.orig)
                 /\ UNCHANGED succeeded
            ELSE IF o.canContinue
            THEN /\ pc' = "x_submit"
                 /\ succeeded' = succeeded \cup {"fillBookingForm"}
                 /\ UNCHANGED <<caught, failed>>
            ELSE /\ pc' = "x_catch"
                 /\ caught' = "E_no_continue_button"
                 /\ failed' = Record("fillBookingForm", "E_no_continue_button")
                 /\ UNCHANGED succeeded
    /\ UNCHANGED <<script, pageAnalysis, submitResult, twiceVars, extraVars, rlVars, retryVars, env, carrier, attempt,
                   loginSuccess, doc, outcome, exited, exitCode>>

\* lines 111-113 and 139-141: submitBookingForm and the success check
X_Submit ==
    /\ script \in ExtractScripts
    /\ pc = "x_submit"
    /\ \E o \in SubmitOutcomes :
         /\ submitResult' = IF o.ret = "throw" THEN submitResult ELSE SubmitResult(o)
         /\ trace' = Append(trace, "submitBookingForm")
         /\ IF o.ret = "throw"
            THEN /\ pc' = "x_catch"
                 /\ caught' = o.err
                 /\ failed' = Record("submitBookingForm", o.err)
                 /\ UNCHANGED succeeded
            ELSE IF o.success
            THEN /\ pc' = "x_rates"
                 /\ succeeded' = succeeded \cup {"submitBookingForm"}
                 /\ UNCHANGED <<caught, failed>>
            ELSE /\ pc' = "x_catch"
                 /\ caught' = "E_submission_failed"
                 /\ failed' = Record("submitBookingForm", "E_submission_failed")
                 /\ UNCHANGED succeeded
    /\ UNCHANGED <<script, pageAnalysis, formResult, twiceVars, extraVars, rlVars, retryVars, env, carrier, attempt,
                   loginSuccess, doc, outcome, exited, exitCode>>

\* line 119: extractRates
X_Rates ==
    /\ script \in ExtractScripts
    /\ pc = "x_rates"
    /\ \E o \in RatesOutcomes(carrier) :
         /\ trace' = Append(trace, "extractRates") \o o.events
         /\ IF o.ret = "throw"
            THEN /\ pc' = "x_catch"
                 /\ caught' = o.err
                 /\ failed' = Record("extractRates", o.orig)
                 /\ UNCHANGED succeeded
            ELSE /\ pc' = "x_write"
                 /\ succeeded' = succeeded \cup {"extractRates"}
                 /\ UNCHANGED <<caught, failed>>
    /\ UNCHANGED <<script, stageVars, twiceVars, extraVars, rlVars, retryVars, env, carrier, attempt,
                   loginSuccess, doc, outcome, exited, exitCode>>

\* lines 124-137: writeFile of the results, then return
X_WriteResults ==
    /\ script \in ExtractScripts
    /\ pc = "x_write"
    /\ \/ /\ trace' = Append(trace, "writeFile")
          /\ doc' = SuccessDocument
          /\ pc' = "x_finally"
          /\ UNCHANGED <<caught, failed>>
       \/ /\ trace' = Append(trace, "writeFile!")
          /\ caught' = "E_write"
          /\ failed' = Record("writeResults", "E_write")
          /\ pc' = "x_catch"
          /\ UNCHANGED doc
    /\ UNCHANGED <<script, stageVars, twiceVars, extraVars, rlVars, retryVars, env, carrier, attempt,
                   loginSuccess, succeeded, outcome, exited, exitCode>>

\* lines 151-175: the catch block: the guarded screenshot, the error
\* document, throw error
X_Catch ==
    /\ script \in ExtractScripts
    /\ pc = "x_catch"
    /\ \E shots \in (IF carrier # "undefined" /\ HasPage(carrier)
                     THEN {<<sh>> : sh \in ScreenshotEvents(carrier)}
                     ELSE {<<>>}) :
         LET handled == IF shots = <<>> THEN caught
                        ELSE AfterGuardedShot(caught, shots[1]) IN
         \/ /\ trace' = trace \o shots \o <<"writeFile">>
            /\ doc' = ErrorDocument(handled)
            /\ caught' = handled
         \/ /\ trace' = trace \o shots \o <<"writeFile!">>
            /\ caught' = "E_write"
            /\ UNCHANGED doc
    /\ pc' = "x_finally"
    /\ UNCHANGED <<script, stageVars, twiceVars, extraVars, rlVars, retryVars, env, carrier, attempt,
                   loginSuccess, succeeded, failed, outcome, exited, exitCode>>

\* a close awaited inside try/catch: the pending outcome stays
AfterGuardedClose(pending, ev) == pending

\* a close awaited outside any try: its error replaces the pending outcome
AfterUnguardedClose(pending, ev) == IF ev = "close!" THEN "E_close" ELSE pending

Completion(pending) ==
    IF pending = None THEN [kind |-> "returned", err |-> None]
                      ELSE [kind |-> "thrown", err |-> pending]

\* lines 177-187: the finally block, then the return or the throw
X_Finally ==
    /\ script \in ExtractScripts
    /\ pc = "x_finally"
    /\ IF carrier # "undefined"
       THEN \E ev \in CloseEvents(carrier) :
              /\ trace' = Append(trace, ev)
              /\ outcome' = Completion(AfterGuardedClose(caught, ev))
       ELSE /\ outcome' = Completion(caught)
            /\ UNCHANGED trace
    /\ pc' = IF script = "index" THEN "i_after" ELSE "done"
    /\ UNCHANGED <<script, stageVars, twiceVars, extraVars, rlVars, retryVars, env, carrier, attempt,
                   loginSuccess, caught, succeeded, failed, doc, exited,
                   exitCode>>

-----------------------------------------------------------------------------
(* main of the index script                                                *)

\* lines 9-17: the required variables, process.exit(1) when one is missing
I_EnvCheck ==
    /\ script = "index"
    /\ pc = "i_env"
    /\ IF ~env.MAERSK_USERNAME \/ ~env.MAERSK_PASSWORD \/ ~env.ANTHROPIC_API_KEY
       THEN /\ exited' = TRUE
            /\ exitCode' = 1
            /\ failed' = Record("config", "E_missing_variables")
            /\ pc' = "done"
       ELSE /\ pc' = "x_env"
            /\ UNCHANGED <<exited, exitCode, failed>>
    /\ UNCHANGED <<script, stageVars, twiceVars, extraVars, rlVars, retryVars, env, carrier, attempt,
                   loginSuccess, caught, trace, succeeded, doc, outcome>>

\* lines 23-35: the result of extractMaerskRates: the summary, or the catch
\* block and process.exit(1)
I_After ==
    /\ script = "index"
    /\ pc = "i_after"
    /\ exited' = TRUE
    /\ exitCode' = IF outcome.kind = "thrown" THEN 1 ELSE 0
    /\ pc' = "done"
    /\ UNCHANGED <<script, stageVars, twiceVars, extraVars, rlVars, retryVars, env, carrier, attempt,
                   loginSuccess, caught, trace, succeeded, failed, doc,
                   outcome>>

-----------------------------------------------------------------------------
(* main of src/main.js                                                      *)

\* const carrier is declared inside the try block, so in the catch block
\* typeof carrier !== 'undefined' is false
MainCatchSeesCarrier == FALSE

\* lines 15-25: credentials and OPENAI_API_KEY, process.exit(1) when missing
M_EnvCheck ==
    /\ script = "main"
    /\ pc = "m_env"
    /\ IF ~env.MAERSK_USERNAME \/ ~env.MAERSK_PASSWORD \/ ~env.OPENAI_API_KEY
       THEN /\ exited' = TRUE
            /\ exitCode' = 1
            /\ failed' = Record("config", "E_missing_variables")
            /\ pc' = "done"
       ELSE /\ pc' = "m_init"
            /\ UNCHANGED <<exited, exitCode, failed>>
    /\ UNCHANGED <<script, stageVars, twiceVars, extraVars, rlVars, retryVars, env, carrier, attempt,
                   loginSuccess, caught, trace, succeeded, doc, outcome>>

\* lines 38-43: const carrier = new MaerskCarrier(); await carrier.initBrowser
M_InitBrowser ==
    /\ script = "main"
    /\ pc = "m_init"
    /\ IF ConstructorThrows(env)
       THEN /\ caught' = "E_constructor"
            /\ failed' = Record("config", "E_constructor")
            /\ pc' = "m_catch"
            /\ UNCHANGED <<carrier, trace, succeeded>>
       ELSE \E o \in InitBrowserOutcomes :
            /\ carrier' = o.carrier
            /\ trace' = Append(trace, "initBrowser")
            /\ IF o.err = None
               THEN /\ pc' = "m_login"
                    /\ succeeded' = succeeded \cup {"initBrowser"}
                    /\ UNCHANGED <<caught, failed>>
               ELSE /\ pc' = "m_catch"
                    /\ caught' = o.err
                    /\ failed' = Record("initBrowser", o.err)
                    /\ UNCHANGED succeeded
    /\ UNCHANGED <<script, stageVars, twiceVars, extraVars, rlVars, retryVars, env, attempt, loginSuccess,
                   doc, outcome, exited, exitCode>>

\* lines 52-84: one iteration of the login loop and, when the loop ends,
\* the check of loginSuccess (return, without closing)
M_LoginAttempt ==
    /\ script = "main"
    /\ pc = "m_login"
    /\ LoopContinues(attempt, maxLoginAttempts) /\ ~loginSuccess
    /\ \E o \in HybridLoginOutcomes :
         LET step == LoginLoopStep(attempt, o) IN
         /\ trace' = trace \o step.events
         /\ loginSuccess' = step.loginSuccess
         /\ attempt' = attempt + 1
         /\ CASE step.exit = "success" ->
                   /\ pc' = "m_verify"
                   /\ succeeded' = succeeded \cup {"login"}
                   /\ UNCHANGED <<caught, failed>>
              [] step.exit = "again" ->
                   UNCHANGED <<pc, succeeded, caught, failed>>
              [] step.exit = "allFailed" ->
                   /\ pc' = "m_returned"
                   /\ failed' = Record("login", "E_all_logins_failed")
                   /\ UNCHANGED <<succeeded, caught>>
              [] OTHER ->
                   /\ pc' = "m_catch"
                   /\ caught' = o.err
                   /\ failed' = Record("login", o.err)
                   /\ UNCHANGED succeeded
    /\ UNCHANGED <<script, stageVars, twiceVars, extraVars, rlVars, retryVars, env, carrier, doc, outcome,
                   exited, exitCode>>

\* lines 94-115 and 181-185: verifyBookingPage and the form check; without
\* the form a screenshot is taken and the summary follows
M_Verify ==
    /\ script = "main"
    /\ pc = "m_verify"
    /\ \E o \in VerifyOutcomes :
         /\ pageAnalysis' = IF o.ret = "throw" THEN pageAnalysis ELSE Analysis(o)
         /\ IF o.ret = "throw"
            THEN /\ trace' = Append(trace, "verifyBookingPage")
                 /\ pc' = "m_catch"
                 /\ caught' = o.err
                 /\ failed' = Record("verifyBookingPage", o.err)
                 /\ UNCHANGED succeeded
            ELSE IF FormPresent(o)
            THEN /\ trace' = Append(trace, "verifyBookingPage")
                 /\ pc' = "m_fill"
                 /\ succeeded' = succeeded \cup {"verifyBookingPage"}
                 /\ UNCHANGED <<caught, failed>>
            ELSE \E sh \in ScreenshotEvents(carrier) :
                 /\ trace' = trace \o <<"verifyBookingPage", sh>>
                 /\ failed' = Record("verifyBookingPage", "E_no_booking_form")
                 /\ caught' = AfterUnguardedShot(None, sh)
                 /\ pc' = IF AfterUnguardedShot(None, sh) = None
                          THEN "m_summary" ELSE "m_catch"
                 /\ UNCHANGED succeeded
    /\ UNCHANGED <<script, formResult, submitResult, twiceVars, extraVars, rlVars, retryVars, env, carrier, attempt,
                   loginSuccess, doc, outcome, exited, exitCode>>

\* lines 175-179: catch (formError): a screenshot, then the summary
FormErrorHandled(sh) ==
    [caught |-> AfterUnguardedShot(None, sh),
     pc |-> IF AfterUnguardedShot(None, sh) = None THEN "m_summary" ELSE "m_catch"]

\* lines 120-127 and 171-179: fillBookingForm inside try/catch (formError)
M_Fill ==
    /\ script = "main"
    /\ pc = "m_fill"
    /\ \E o \in FillOutcomes(carrier) :
         /\ formResult' = IF o.ret = "throw" THEN formResult ELSE FormResult(o)
         /\ IF o.ret = "throw"
            THEN \E sh \in ScreenshotEvents(carrier) :
                 /\ trace' = Append(trace, "fillBookingForm") \o o.events \o <<sh>>
                 /\ failed' = Record("fillBookingForm", o.orig)
                 /\ caught' = FormErrorHandled(sh).caught
                 /\ pc' = FormErrorHandled(sh).pc
                 /\ UNCHANGED succeeded
            ELSE IF o.canContinue
            THEN /\ trace' = Append(trace, "fillBookingForm")
                 /\ pc' = "m_submit"
                 /\ succeeded' = succeeded \cup {"fillBookingForm"}
                 /\ UNCHANGED <<caught, failed>>
            ELSE /\ trace' = Append(trace, "fillBookingForm")
                 /\ pc' = "m_summary"
                 /\ failed' = Record("fillBookingForm", "E_no_continue_button")
                 /\ UNCHANGED <<caught, succeeded>>
    /\ UNCHANGED <<script, pageAnalysis, submitResult, twiceVars, extraVars, rlVars, retryVars, env, carrier, attempt,
                   loginSuccess, doc, outcome, exited, exitCode>>

\* lines 133-135 and 167-169: submitBookingForm, inside the same try
M_Submit ==
    /\ script = "main"
    /\ pc = "m_submit"
    /\ \E o \in SubmitOutcomes :
         /\ submitResult' = IF o.ret = "throw" THEN submitResult ELSE SubmitResult(o)
         /\ IF o.ret = "throw"
            THEN \E sh \in ScreenshotEvents(carrier) :
                 /\ trace' = trace \o <<"submitBookingForm", sh>>
                 /\ failed' = Record("submitBookingForm", o.err)
                 /\ caught' = FormErrorHandled(sh).caught
                 /\ pc' = FormErrorHandled(sh).pc
                 /\ UNCHANGED succeeded
            ELSE IF o.success
            THEN /\ trace' = Append(trace, "submitBookingForm")
                 /\ pc' = "m_rates"
                 /\ succeeded' = succeeded \cup {"submitBookingForm"}
                 /\ UNCHANGED <<caught, failed>>
            ELSE /\ trace' = Append(trace, "submitBookingForm")
                 /\ pc' = "m_summary"
                 /\ failed' = Record("submitBookingForm", "E_submission_failed")
                 /\ UNCHANGED <<caught, succeeded>>
    /\ UNCHANGED <<script, pageAnalysis, formResult, twiceVars, extraVars, rlVars, retryVars, env, carrier, attempt,
                   loginSuccess, doc, outcome, exited, exitCode>>

\* lines 141-165: extractRates inside try/catch (rateError); the result is
\* read through rateResults.detailedRates, then saveActionHistory
M_Rates ==
    /\ script = "main"
    /\ pc = "m_rates"
    /\ \E o \in RatesOutcomes(carrier) :
         IF o.ret = "throw"
         THEN /\ trace' = Append(trace, "extractRates") \o o.events
              /\ failed' = Record("extractRates", o.orig)
              /\ UNCHANGED succeeded
         ELSE /\ succeeded' = succeeded \cup {"extractRates"}
              /\ trace' = IF "detailedRates" \in RateResultFields
                          THEN trace \o <<"extractRates", "saveActionHistory">>
                          ELSE Append(trace, "extractRates")
              /\ UNCHANGED failed
    /\ pc' = "m_summary"
    /\ UNCHANGED <<script, stageVars, twiceVars, extraVars, rlVars, retryVars, env, carrier, attempt,
                   loginSuccess, caught, doc, outcome, exited, exitCode>>

\* lines 187-219: the summary, the inspection wait, await carrier.close();
\* main returns and the process ends
M_Summary ==
    /\ script = "main"
    /\ pc = "m_summary"
    /\ \E ev \in CloseEvents(carrier) :
         /\ trace' = Append(trace, ev)
         /\ IF AfterUnguardedClose(None, ev) = None
            THEN /\ exited' = TRUE
                 /\ exitCode' = 0
                 /\ outcome' = Completion(None)
                 /\ pc' = "done"
                 /\ UNCHANGED caught
            ELSE /\ caught' = AfterUnguardedClose(None, ev)
                 /\ pc' = "m_catch"
                 /\ UNCHANGED <<exited, exitCode, outcome>>
    /\ UNCHANGED <<script, stageVars, twiceVars, extraVars, rlVars, retryVars, env, carrier, attempt,
                   loginSuccess, succeeded, failed, doc>>

\* lines 221-239: the catch block: screenshot and close if the carrier is
\* visible, process.exit(1)
M_Catch ==
    /\ script = "main"
    /\ pc = "m_catch"
    /\ IF MainCatchSeesCarrier /\ HasPage(carrier)
       THEN \E sh \in ScreenshotEvents(carrier), ev \in CloseEvents(carrier) :
              trace' = IF sh = "takeScreenshot!" THEN Append(trace, sh)
                       ELSE trace \o <<sh, ev>>
       ELSE UNCHANGED trace
    /\ exited' = TRUE
    /\ exitCode' = 1
    /\ outcome' = Completion(caught)
    /\ pc' = "done"
    /\ UNCHANGED <<script, stageVars, twiceVars, extraVars, rlVars, retryVars, env, carrier, attempt,
                   loginSuccess, caught, succeeded, failed, doc>>

\* process.on('SIGINT') is registered at module level, where the carrier
\* declared inside main is not in scope: typeof carrier !== 'undefined' is
\* false
MainSigintSeesCarrier == FALSE

\* lines 243-253: the SIGINT handler: close if the carrier is visible,
\* process.exit(0)
M_Sigint ==
    /\ script = "main"
    /\ ~exited
    /\ IF MainSigintSeesCarrier /\ carrier # "undefined"
       THEN \E ev \in CloseEvents(carrier) :
              trace' = trace \o <<"SIGINT", ev>>
       ELSE trace' = Append(trace, "SIGINT")
    /\ exited' = TRUE
    /\ exitCode' = 0
    /\ pc' = "done"
    /\ UNCHANGED <<script, stageVars, twiceVars, extraVars, rlVars, retryVars, env,
                   carrier, attempt, loginSuccess, caught, succeeded, failed,
                   doc, outcome>>

-----------------------------------------------------------------------------
(* advancedAutomationExample                                               *)

\* the body of the try block after initBrowser: the page.act and
\* page.extract steps all return, or one of them throws
BodyOutcomes == {None, "E_step"}

\* line 21: const carrier = new MaerskCarrier(), outside the try block
A_New ==
    /\ script = "advanced"
    /\ pc = "a_new"
    /\ IF ConstructorThrows(env)
       THEN /\ outcome' = Completion("E_constructor")
            /\ failed' = Record("config", "E_constructor")
            /\ pc' = "a_after"
            /\ UNCHANGED carrier
       ELSE /\ carrier' = "constructed"
            /\ pc' = "a_body"
            /\ UNCHANGED <<outcome, failed>>
    /\ UNCHANGED <<script, stageVars, twiceVars, extraVars, rlVars, retryVars, env, attempt, loginSuccess,
                   caught, trace, succeeded, doc, exited, exitCode>>

\* lines 23-220: initBrowser and the automation steps
A_Body ==
    /\ script = "advanced"
    /\ pc = "a_body"
    /\ \E o \in InitBrowserOutcomes, b \in BodyOutcomes :
         /\ carrier' = o.carrier
         /\ IF o.err # None
            THEN /\ trace' = Append(trace, "initBrowser")
                 /\ caught' = o.err
                 /\ failed' = Record("initBrowser", o.err)
                 /\ pc' = "a_catch"
                 /\ UNCHANGED succeeded
            ELSE IF b # None
            THEN /\ trace' = trace \o <<"initBrowser", "automation">>
                 /\ caught' = b
                 /\ failed' = Record("automation", b)
                 /\ succeeded' = succeeded \cup {"initBrowser"}
                 /\ pc' = "a_catch"
            ELSE /\ trace' = trace \o <<"initBrowser", "automation">>
                 /\ succeeded' = succeeded \cup {"initBrowser", "automation"}
                 /\ pc' = "a_finally"
                 /\ UNCHANGED <<caught, failed>>
    /\ UNCHANGED <<script, stageVars, twiceVars, extraVars, rlVars, retryVars, env, attempt, loginSuccess,
                   doc, outcome, exited, exitCode>>

\* lines 222-225: catch: await carrier.takeScreenshot(...); throw error
A_Catch ==
    /\ script = "advanced"
    /\ pc = "a_catch"
    /\ \E sh \in ScreenshotEvents(carrier) :
         /\ trace' = Append(trace, sh)
         /\ caught' = AfterUnguardedShot(caught, sh)
    /\ pc' = "a_finally"
    /\ UNCHANGED <<script, stageVars, twiceVars, extraVars, rlVars, retryVars, env, carrier, attempt,
                   loginSuccess, succeeded, failed, doc, outcome, exited,
                   exitCode>>

\* lines 226-228: finally: await carrier.close()
A_Finally ==
    /\ script = "advanced"
    /\ pc = "a_finally"
    /\ \E ev \in CloseEvents(carrier) :
         /\ trace' = Append(trace, ev)
         /\ outcome' = Completion(AfterUnguardedClose(caught, ev))
    /\ pc' = "a_after"
    /\ UNCHANGED <<script, stageVars, twiceVars, extraVars, rlVars, retryVars, env, carrier, attempt,
                   loginSuccess, caught, succeeded, failed, doc, exited,
                   exitCode>>

\* lines 235-239: run directly: a rejection ends in process.exit(1)
A_After ==
    /\ script = "advanced"
    /\ pc = "a_after"
    /\ exited' = TRUE
    /\ exitCode' = IF outcome.kind = "thrown" THEN 1 ELSE 0
    /\ pc' = "done"
    /\ UNCHANGED <<script, stageVars, twiceVars, extraVars, rlVars, retryVars, env, carrier, attempt,
                   loginSuccess, caught, trace, succeeded, failed, doc,
                   outcome>>

-----------------------------------------------------------------------------
(* The specification                                                       *)

NoResponse == [message |-> "none"]

NoBooking == [given |-> FALSE]

\* what page.extract can answer: the schema's required fields, with or
\* without the optional additionalServices
StructuredRates ==
    {[rates |-> r, totalOptionsFound |-> Len(r), hasRateInformation |-> h,
      pageType |-> "rates"] :
        r \in {<<>>, <<"spot">>, <<"spot", "contract">>}, h \in BOOLEAN}
    \cup {[rates |-> <<"spot">>, totalOptionsFound |-> Len(<<"spot">>),
           hasRateInformation |-> TRUE, pageType |-> "results",
           additionalServices |-> <<"customs">>]}

\* what agent.execute (rateAnalysis) and page.extract (structuredRates) answer
Responses ==
    {[message |-> m, structuredRates |-> sr] :
        m \in {"analysis_a", "analysis_b"}, sr \in StructuredRates}

\* new Date().toISOString(): the instant as its seconds and milliseconds
ToISOString(ms) == <<ms \div 1000, ms % 1000>>

\* a jsonResult whose summary depends on the time of the run
JsonResultStamped(resp, now) ==
    [success |-> TRUE,
     extractionTimestamp |-> ToISOString(now),
     source |-> "Maersk.com",
     claudeAnalysis |-> resp.message,
     rateData |-> resp.structuredRates,
     summary |-> [totalOptions |-> now,
                  hasRates |-> resp.structuredRates.hasRateInformation,
                  pageAnalyzed |-> resp.structuredRates.pageType]]

\* part_003 lines 500-511: jsonResult
JsonResult(resp, now) ==
    [success |-> TRUE,
     extractionTimestamp |-> ToISOString(now),
     source |-> "Maersk.com",
     claudeAnalysis |-> resp.message,
     rateData |-> resp.structuredRates,
     summary |-> [totalOptions |-> resp.structuredRates.totalOptionsFound,
                  hasRates |-> resp.structuredRates.hasRateInformation,
                  pageAnalyzed |-> resp.structuredRates.pageType]]

\* one successful run of extractRates: the agent and the page answer as
\* before, the result is stamped with the current time
R_ExtractRates ==
    /\ script = "twice"
    /\ Len(documents) < MaxRuns
    /\ documents' = Append(documents, JsonResult(agentResponse, clock))
    /\ UNCHANGED <<script, stageVars, agentResponse, extraVars, rlVars,
                   retryVars, pipeVars>>

-----------------------------------------------------------------------------
(* The login loop on its own ("loop"), run against a hybridLogin that may  *)
(* return true, return false or throw                                      *)

\* what the loop can receive from one await carrier.hybridLogin()
LoopOutcomes == HybridLoginOutcomes \cup {[ret |-> "false", err |-> None]}

\* history: how the attempt ended: "true", "false" or the error thrown
OutcomeEvent(o) == IF o.ret = "throw" THEN o.err ELSE o.ret

\* one iteration of the while loop, with the throw that follows the loop
L_LoginAttempt ==
    /\ script = "loop"
    /\ pc = "l_login"
    /\ LoopContinues(attempt, maxLoginAttempts) /\ ~loginSuccess
    /\ \E o \in LoopOutcomes :
         LET step == LoginLoopStep(attempt, o) IN
         /\ trace' = trace \o <<Head(step.events), OutcomeEvent(o)>>
                           \o Tail(step.events)
         /\ loginSuccess' = step.loginSuccess
         /\ attempt' = attempt + 1
         /\ CASE step.exit = "success" ->
                   /\ pc' = "done"
                   /\ succeeded' = succeeded \cup {"login"}
                   /\ outcome' = Completion(None)
                   /\ UNCHANGED <<caught, failed>>
              [] step.exit = "again" ->
                   UNCHANGED <<pc, succeeded, caught, failed, outcome>>
              [] step.exit = "allFailed" ->
                   /\ pc' = "done"
                   /\ caught' = "E_all_logins_failed"
                   /\ failed' = Record("login", "E_all_logins_failed")
                   /\ outcome' = Completion("E_all_logins_failed")
                   /\ UNCHANGED succeeded
              [] OTHER ->
                   /\ pc' = "done"
                   /\ caught' = o.err
                   /\ failed' = Record("login", o.err)
                   /\ outcome' = Completion(o.err)
                   /\ UNCHANGED succeeded
    /\ UNCHANGED <<script, stageVars, twiceVars, extraVars, rlVars, retryVars,
                   env, carrier, doc, exited, exitCode>>

-----------------------------------------------------------------------------
(* MaerskCarrier.hybridLogin (Stagehand) step by step ("login") and        *)
(* submitBookingForm step by step ("submit")                               *)

\* page.url() after page.goto('https://www.maersk.com/book/'), as characters
UrlBooking ==
    <<"h", "t", "t", "p", "s", ":", "/", "/", "w", "w", "w", ".", "m",
      "a", "e", "r", "s", "k", ".", "c", "o", "m", "/", "b", "o", "o",
      "k", "/">>
UrlAccounts ==
    <<"h", "t", "t", "p", "s", ":", "/", "/", "a", "c", "c", "o", "u",
      "n", "t", "s", ".", "m", "a", "e", "r", "s", "k", ".", "c", "o",
      "m", "/", "a", "u", "t", "h">>
UrlPortalLogin ==
    <<"h", "t", "t", "p", "s", ":", "/", "/", "w", "w", "w", ".", "m",
      "a", "e", "r", "s", "k", ".", "c", "o", "m", "/", "p", "o", "r",
      "t", "a", "l", "u", "s", "e", "r", "/", "l", "o", "g", "i", "n">>
UrlOther ==
    <<"h", "t", "t", "p", "s", ":", "/", "/", "w", "w", "w", ".", "e",
      "x", "a", "m", "p", "l", "e", ".", "o", "r", "g", "/">>

Urls == {UrlBooking, UrlAccounts, UrlPortalLogin, UrlOther}

StrMaersk   == <<"m", "a", "e", "r", "s", "k", ".", "c", "o", "m">>
StrAccounts == <<"a", "c", "c", "o", "u", "n", "t", "s", ".", "m", "a",
                 "e", "r", "s", "k", ".", "c", "o", "m">>
StrLogin    == <<"l", "o", "g", "i", "n">>

\* a verification that only looks for 'maersk.com'
LoginVerifiedLoose(url) == Includes(url, StrMaersk)

\* currentUrl.includes('maersk.com') && !currentUrl.includes(
\* 'accounts.maersk.com') && !currentUrl.includes('login')
LoginVerified(url) ==
    /\ Includes(url, StrMaersk)
    /\ ~Includes(url, StrAccounts)
    /\ ~Includes(url, StrLogin)

\* the steps made of a direct browser action with the agent as fallback
FallbackSteps == {"open", "fill", "submit", "act"}

\* history: the direct action of a step, "!" when it rejected
DirectEvent(step, ok) ==
    CASE step = "open"   -> IF ok THEN "page.click(login)" ELSE "page.click(login)!"
      [] step = "fill"   -> IF ok THEN "page.fill" ELSE "page.fill!"
      [] step = "submit" -> IF ok THEN "page.click(submit)" ELSE "page.click(submit)!"
      [] OTHER           -> IF ok THEN "page.act" ELSE "page.act!"

\* history: the agent.execute of a step, "!" when it rejected
AgentEvent(step, ok) ==
    CASE step = "open"   -> IF ok THEN "agent.execute(login)" ELSE "agent.execute(login)!"
      [] step = "fill"   -> IF ok THEN "agent.execute(fill)" ELSE "agent.execute(fill)!"
      [] step = "submit" -> IF ok THEN "agent.execute(submit)" ELSE "agent.execute(submit)!"
      [] OTHER           -> IF ok THEN "agent.execute(act)" ELSE "agent.execute(act)!"

\* try { direct action } catch { await this.agent.execute(...) }
FallbackStep(step, directOk, agentOk) ==
    IF directOk
    THEN [events |-> <<DirectEvent(step, TRUE)>>, err |-> None]
    ELSE [events |-> <<DirectEvent(step, FALSE), AgentEvent(step, agentOk)>>,
          err |-> IF agentOk THEN None ELSE "E_agent"]

\* line 97: await this.page.goto(this.baseUrl)
H_Goto ==
    /\ script = "login"
    /\ pc = "h_goto"
    /\ \/ /\ trace' = Append(trace, "page.goto")
          /\ pc' = "open"
          /\ UNCHANGED outcome
       \/ /\ trace' = Append(trace, "page.goto!")
          /\ pc' = "done"
          /\ outcome' = Completion("E_goto")
    /\ UNCHANGED <<script, stageVars, twiceVars, extraVars, rlVars, retryVars,
                   env, carrier, attempt, loginSuccess, caught, succeeded,
                   failed, doc, exited, exitCode>>

\* lines 103-147: open the login page, fill the credentials, submit; each
\* a direct action with the agent as fallback (the cookie dialog between
\* them has no fallback and never throws)
H_Step ==
    /\ script = "login"
    /\ pc \in {"open", "fill", "submit"}
    /\ \E directOk \in BOOLEAN, agentOk \in BOOLEAN :
         LET r == FallbackStep(pc, directOk, agentOk) IN
         /\ trace' = trace \o r.events
         /\ IF r.err # None
            THEN /\ pc' = "done"
                 /\ outcome' = Completion(r.err)
            ELSE /\ pc' = CASE pc = "open" -> "fill"
                             [] pc = "fill" -> "submit"
                             [] OTHER       -> "h_verify"
                 /\ UNCHANGED outcome
    /\ UNCHANGED <<script, stageVars, twiceVars, extraVars, rlVars, retryVars,
                   env, carrier, attempt, loginSuccess, caught, succeeded,
                   failed, doc, exited, exitCode>>

\* lines 153-166: navigate to the booking page, read the URL, return true
\* or throw
H_Verify ==
    /\ script = "login"
    /\ pc = "h_verify"
    /\ pc' = "done"
    /\ \/ /\ trace' = Append(trace, "page.goto!")
          /\ outcome' = Completion("E_goto")
          /\ UNCHANGED <<loginResult, currentUrl>>
       \/ \E url \in Urls :
             /\ trace' = Append(trace, "page.goto")
             /\ currentUrl' = url
             /\ IF LoginVerified(url)
                THEN /\ loginResult' = "true"
                     /\ outcome' = Completion(None)
                ELSE /\ outcome' = Completion("E_verification")
                     /\ UNCHANGED loginResult
    /\ UNCHANGED <<script, stageVars, twiceVars, booking, cleanups, agent,
                   contexts, rlVars, retryVars, env, carrier, attempt,
                   loginSuccess, caught, succeeded, failed, doc, exited,
                   exitCode>>

\* lines 428-445: page.act, with agent.execute as fallback
S_Act ==
    /\ script = "submit"
    /\ pc = "act"
    /\ \E directOk \in BOOLEAN, agentOk \in BOOLEAN :
         LET r == FallbackStep(pc, directOk, agentOk) IN
         /\ trace' = trace \o r.events
         /\ IF r.err # None
            THEN /\ pc' = "done"
                 /\ outcome' = Completion(r.err)
            ELSE /\ pc' = "s_shot"
                 /\ UNCHANGED outcome
    /\ UNCHANGED <<script, stageVars, twiceVars, extraVars, rlVars, retryVars,
                   env, carrier, attempt, loginSuccess, caught, succeeded,
                   failed, doc, exited, exitCode>>

\* lines 447-455: the wait, takeScreenshot awaited inside the outer try,
\* return { success: true }
S_Screenshot ==
    /\ script = "submit"
    /\ pc = "s_shot"
    /\ \E sh \in ScreenshotEvents("ready") :
         /\ trace' = Append(trace, sh)
         /\ outcome' = Completion(AfterUnguardedShot(None, sh))
         /\ submitResult' = IF sh = "takeScreenshot!" THEN submitResult
                             ELSE SubmitResult([ret |-> "result",
                                                success |-> TRUE, err |-> None])
    /\ pc' = "done"
    /\ UNCHANGED <<script, pageAnalysis, formResult, twiceVars, extraVars, rlVars,
                   retryVars, env, carrier, attempt, loginSuccess, caught,
                   succeeded, failed, doc, exited, exitCode>>

-----------------------------------------------------------------------------
(* BookingDetails.validate and MaerskCarrier.fillBookingForm ("fill")      *)

\* a Location, or null; '' and undefined are both the empty sequence
NoLocation == [set |-> FALSE, city |-> <<>>, country |-> <<>>]

Locations ==
    {NoLocation}
    \cup {[set |-> TRUE, city |-> c, country |-> k] :
             c \in {<<>>, <<"R">>}, k \in {<<>>, <<"N">>}}

\* this.containers: null, [] or one container
ContainerLists == {[set |-> FALSE, length |-> 0], [set |-> TRUE, length |-> 0],
                   [set |-> TRUE, length |-> 1]}

Commodities == {<<>>, <<" ">>, <<" ", "e", " ">>, <<"e">>}

Bookings ==
    [given : {TRUE}, origin : Locations, destination : Locations,
     containers : ContainerLists, commodity : Commodities,
     readyDate : BOOLEAN]

Whitespace == {" ", "\t", "\n"}

RECURSIVE TrimStart(_)
TrimStart(str) ==
    IF str # <<>> /\ Head(str) \in Whitespace THEN TrimStart(Tail(str)) ELSE str

RECURSIVE TrimEnd(_)
TrimEnd(str) ==
    IF str # <<>> /\ str[Len(str)] \in Whitespace
    THEN TrimEnd(SubSeq(str, 1, Len(str) - 1)) ELSE str

\* String.prototype.trim
Trim(str) == TrimEnd(TrimStart(str))

\* !this.origin || !this.origin.city || !this.origin.country
LocationMissing(l) == ~l.set \/ l.city = <<>> \/ l.country = <<>>

\* BookingDetails.validate: the list of error messages
Validate(b) ==
    (IF LocationMissing(b.origin)
     THEN <<"Origin location is required">> ELSE <<>>)
    \o (IF LocationMissing(b.destination)
        THEN <<"Destination location is required">> ELSE <<>>)
    \o (IF ~b.containers.set \/ b.containers.length = 0
        THEN <<"At least one container is required">> ELSE <<>>)
    \o (IF b.commodity = <<>> \/ Trim(b.commodity) = <<>>
        THEN <<"Commodity is required">> ELSE <<>>)
    \o (IF ~b.readyDate THEN <<"Ready date is required">> ELSE <<>>)

\* lines 206-210: validate, throw when the list is not empty
F_Validate ==
    /\ script = "fill"
    /\ pc = "f_validate"
    /\ trace' = Append(trace, "validate")
    /\ IF Len(Validate(booking)) > 0
       THEN /\ pc' = "f_catch"
            /\ caught' = "E_validation"
       ELSE /\ pc' = "f_agent"
            /\ UNCHANGED caught
    /\ UNCHANGED <<script, stageVars, twiceVars, extraVars, rlVars, retryVars,
                   env, carrier, attempt, loginSuccess, succeeded, failed,
                   doc, outcome, exited, exitCode>>

\* lines 212-414: the agent instructions, then the result
F_Agent ==
    /\ script = "fill"
    /\ pc = "f_agent"
    /\ \/ /\ trace' = Append(trace, "agent.execute(form)")
          /\ pc' = "done"
          /\ outcome' = Completion(None)
          /\ \E b \in BOOLEAN :
                formResult' = FormResult([ret |-> "result", canContinue |-> b])
          /\ UNCHANGED caught
       \/ /\ trace' = Append(trace, "agent.execute(form)!")
          /\ pc' = "f_catch"
          /\ caught' = "E_agent"
          /\ UNCHANGED <<outcome, formResult>>
    /\ UNCHANGED <<script, pageAnalysis, submitResult, twiceVars, extraVars,
                   rlVars, retryVars, env, carrier, attempt, loginSuccess,
                   succeeded, failed, doc, exited, exitCode>>

\* lines 416-420: takeScreenshot awaited outside any try, then throw error
F_Catch ==
    /\ script = "fill"
    /\ pc = "f_catch"
    /\ \E sh \in ScreenshotEvents("ready") :
         /\ trace' = Append(trace, sh)
         /\ outcome' = Completion(AfterUnguardedShot(caught, sh))
    /\ pc' = "done"
    /\ UNCHANGED <<script, stageVars, twiceVars, extraVars, rlVars, retryVars,
                   env, carrier, attempt, loginSuccess, caught, succeeded,
                   failed, doc, exited, exitCode>>

-----------------------------------------------------------------------------
(* MaerskCarrier (Browser Use): initBrowser and close called in any order  *)
(* ("browseruse")                                                          *)

\* this.agent: null, or an Agent; ctx tells whether agent.browserContext is set
NoAgent == [id |-> 0, ctx |-> FALSE]

\* the Agent created by the n-th `new Agent(...)` of the run
NextAgentId == Count("newAgent", trace) + 1

\* await this.agent.browserContext.cleanup(): it resolves and the context
\* is gone, or it rejects, the context being released or not; this.agent
\* = null follows the await inside the try
CleanupResults(ag, ctxs) ==
    {[agent |-> NoAgent, contexts |-> ctxs \ {ag.id}, event |-> "cleanup"]}
    \cup {[agent |-> ag, contexts |-> c, event |-> "cleanup!"] :
             c \in {ctxs, ctxs \ {ag.id}}}

\* close(): nothing without an agent; cleanup when the agent has a context;
\* errors are caught and logged
CloseResults(ag, ctxs) ==
    IF ag.id = 0
    THEN {[agent |-> ag, contexts |-> ctxs, events |-> <<>>]}
    ELSE IF ag.ctx
    THEN {[agent |-> r.agent, contexts |-> r.contexts, events |-> <<r.event>>] :
             r \in CleanupResults(ag, ctxs)}
    ELSE {[agent |-> NoAgent, contexts |-> ctxs, events |-> <<>>]}

\* initBrowser(): await this.close(), new Agent, await this.agent.run(...);
\* a run that rejects may or may not have opened the browser context
InitBrowserResults(ag, ctxs, id) ==
    UNION {
      {[agent |-> [id |-> id, ctx |-> TRUE], contexts |-> c.contexts \cup {id},
        events |-> c.events \o <<"newAgent", "agent.run">>, ok |-> TRUE]}
      \cup {[agent |-> [id |-> id, ctx |-> b],
             contexts |-> IF b THEN c.contexts \cup {id} ELSE c.contexts,
             events |-> c.events \o <<"newAgent", "agent.run!">>,
             ok |-> FALSE] : b \in BOOLEAN}
      : c \in CloseResults(ag, ctxs)}

CarrierCalls == Count("initBrowser", trace) + Count("close", trace)

B_InitBrowser ==
    /\ script = "browseruse"
    /\ CarrierCalls < MaxCarrierCalls
    /\ \E r \in InitBrowserResults(agent, contexts, NextAgentId) :
         /\ agent' = r.agent
         /\ contexts' = r.contexts
         /\ trace' = trace \o <<"initBrowser">> \o r.events
                           \o <<IF r.ok THEN "initBrowser returned"
                                        ELSE "initBrowser threw">>
    /\ UNCHANGED <<script, stageVars, twiceVars, booking, cleanups, currentUrl,
                   loginResult, rlVars, retryVars, env, pc, carrier, attempt,
                   loginSuccess, caught, succeeded, failed, doc, outcome,
                   exited, exitCode>>

B_Close ==
    /\ script = "browseruse"
    /\ CarrierCalls < MaxCarrierCalls
    /\ \E r \in CloseResults(agent, contexts) :
         /\ agent' = r.agent
         /\ contexts' = r.contexts
         /\ trace' = trace \o <<"close">> \o r.events \o <<"close returned">>
    /\ UNCHANGED <<script, stageVars, twiceVars, booking, cleanups, currentUrl,
                   loginResult, rlVars, retryVars, env, pc, carrier, attempt,
                   loginSuccess, caught, succeeded, failed, doc, outcome,
                   exited, exitCode>>

-----------------------------------------------------------------------------
(* examples/test-rate-extraction.js ("test"): the test body, cleanup() in   *)
(* the finally block and in the SIGINT and SIGTERM handlers                 *)

Signals == {"SIGINT", "SIGTERM"}

\* a call of cleanup(): who made it, the agent being closed, where it is
Cleanup(by, id, state) == [by |-> by, id |-> id, state |-> state]

\* what follows `await cleanup()`: the end of testRateExtraction, or
\* process.exit(0) in a signal handler
AfterCleanup(by) ==
    IF by = "finally"
    THEN /\ pc' = "done"
         /\ UNCHANGED <<exited, exitCode>>
    ELSE /\ exited' = TRUE
         /\ exitCode' = 0
         /\ UNCHANGED pc

\* line 64: carrier = new MaerskCarrier()
T_New ==
    /\ script = "test"
    /\ ~exited
    /\ pc = "t_new"
    /\ carrier' = "ready"
    /\ pc' = "t_init"
    /\ UNCHANGED <<script, stageVars, twiceVars, extraVars, rlVars, retryVars,
                   env, attempt, loginSuccess, caught, trace, succeeded,
                   failed, doc, outcome, exited, exitCode>>

\* lines 65-68: one attempt of retryOperation(() => carrier.initBrowser(false))
T_InitBrowser ==
    /\ script = "test"
    /\ ~exited
    /\ pc = "t_init"
    /\ \E r \in InitBrowserResults(agent, contexts, NextAgentId) :
         /\ agent' = r.agent
         /\ contexts' = r.contexts
         /\ trace' = trace \o <<"initBrowser">> \o r.events
         /\ IF r.ok
            THEN /\ pc' = "t_body"
                 /\ UNCHANGED attempt
            ELSE /\ attempt' = attempt + 1
                 /\ pc' = IF LoopContinues(attempt + 1, defaultMaxAttempts)
                          THEN "t_init" ELSE "t_finally"
    /\ UNCHANGED <<script, stageVars, twiceVars, booking, cleanups, currentUrl,
                   loginResult, rlVars, retryVars, env, carrier, loginSuccess,
                   caught, succeeded, failed, doc, outcome, exited, exitCode>>

\* lines 71-110: login, form filling and rate extraction; their errors are
\* caught and logged by the catch block
T_Body ==
    /\ script = "test"
    /\ ~exited
    /\ pc = "t_body"
    /\ pc' = "t_finally"
    /\ UNCHANGED <<script, stageVars, twiceVars, extraVars, rlVars, retryVars,
                   env, carrier, attempt, loginSuccess, caught, trace,
                   succeeded, failed, doc, outcome, exited, exitCode>>

\* cleanup() up to its await: if (carrier) carrier.close() is called, and
\* close() runs up to the await of browserContext.cleanup()
T_Cleanup(by) ==
    /\ script = "test"
    /\ ~exited
    /\ IF by = "finally" THEN pc = "t_finally" ELSE pc # "done"
    /\ \A k \in DOMAIN cleanups : cleanups[k].by # by
    /\ IF carrier = "ready" /\ agent.id # 0 /\ agent.ctx
       THEN /\ trace' = Append(trace, "close")
            /\ cleanups' = Append(cleanups, Cleanup(by, agent.id, "awaiting"))
            /\ pc' = IF by = "finally" THEN "t_cleanup" ELSE pc
            /\ UNCHANGED <<carrier, agent, exited, exitCode>>
       ELSE /\ trace' = IF carrier = "ready"
                        THEN trace \o <<"close", "close returned">> ELSE trace
            /\ agent' = IF carrier = "ready" THEN NoAgent ELSE agent
            /\ carrier' = "undefined"
            /\ cleanups' = Append(cleanups, Cleanup(by, agent.id, "done"))
            /\ AfterCleanup(by)
    /\ UNCHANGED <<script, stageVars, twiceVars, booking, contexts, currentUrl,
                   loginResult, rlVars, retryVars, env, attempt, loginSuccess,
                   caught, succeeded, failed, doc, outcome>>

\* browserContext.cleanup() settles: close() sets this.agent = null when it
\* resolved, cleanup() sets carrier = null, and the caller goes on
T_CloseReturns(i) ==
    /\ script = "test"
    /\ ~exited
    /\ i \in DOMAIN cleanups
    /\ cleanups[i].state = "awaiting"
    /\ \E r \in CleanupResults([id |-> cleanups[i].id, ctx |-> TRUE], contexts) :
         /\ contexts' = r.contexts
         /\ agent' = IF r.event = "cleanup" THEN NoAgent ELSE agent
         /\ trace' = trace \o <<r.event, "close returned">>
    /\ carrier' = "undefined"
    /\ cleanups' = [cleanups EXCEPT ![i].state = "done"]
    /\ AfterCleanup(cleanups[i].by)
    /\ UNCHANGED <<script, stageVars, twiceVars, booking, currentUrl,
                   loginResult, rlVars, retryVars, env, attempt, loginSuccess,
                   caught, succeeded, failed, doc, outcome>>

Scripts ==
    {"helper", "retry", "extract", "index", "main", "advanced", "twice",
     "loop", "login", "submit", "fill", "browseruse", "test"}

FullEnv == [MAERSK_USERNAME |-> TRUE, MAERSK_PASSWORD |-> TRUE,
            ANTHROPIC_API_KEY |-> TRUE, OPENAI_API_KEY |-> TRUE]

StartPc(s) ==
    CASE s = "extract"  -> "x_env"
      [] s = "index"    -> "i_env"
      [] s = "main"     -> "m_env"
      [] s = "advanced" -> "a_new"
      [] s = "loop"     -> "l_login"
      [] s = "login"    -> "h_goto"
      [] s = "submit"   -> "act"
      [] s = "fill"     -> "f_validate"
      [] s = "test"     -> "t_new"
      [] OTHER          -> "idle"

Init ==
    /\ script \in Scripts
    /\ clock = StartClock
    /\ lastClaudeCall = 0
    /\ calls = <<>>
    /\ maxAttempts \in (IF script = "retry" THEN 1..MaxAttemptsBound ELSE {1})
    /\ rAttempt = 1
    /\ rPc = IF script = "retry" THEN "loop" ELSE "idle"
    /\ rLastError = None
    /\ rTrace = <<>>
    /\ rOutcome = [kind |-> "running", attempts |-> 0, last |-> None]
    /\ rDelays = <<>>
    /\ booking \in (IF script = "fill" THEN Bookings ELSE {NoBooking})
    /\ cleanups = <<>>
    /\ agent = NoAgent
    /\ contexts = {}
    /\ currentUrl = <<>>
    /\ loginResult = None
    /\ env \in (IF script \in {"helper", "retry", "twice", "loop", "login",
                                "submit", "fill", "browseruse", "test"}
                THEN {FullEnv} ELSE EnvChoices)
    /\ pc = StartPc(script)
    /\ carrier = "undefined"
    /\ attempt = 1
    /\ loginSuccess = FALSE
    /\ caught = None
    /\ trace = <<>>
    /\ succeeded = {}
    /\ failed = NoFailure
    /\ doc = NoDocument
    /\ outcome = [kind |-> "running", err |-> None]
    /\ exited = FALSE
    /\ exitCode = 0
    /\ pageAnalysis = NoAnalysis
    /\ formResult = NoFormResult
    /\ submitResult = NoSubmitResult
    /\ agentResponse \in (IF script = "twice" THEN Responses ELSE {NoResponse})
    /\ documents = <<>>

\* every call of the helper is awaited before the next one is made
HelperCallAwaited == Pending = {} /\ HelperCall

Next ==
    \/ HelperCallAwaited
    \/ \E i \in 1..MaxCalls : HelperAgentReturns(i)
    \/ \E i \in 1..MaxCalls, msg \in AgentErrors : HelperAgentThrows(i, msg)
    \/ Tick
    \/ RetryAttemptSucceeds
    \/ \E e \in OpErrors : RetryAttemptFails(e)
    \/ L_LoginAttempt
    \/ H_Goto \/ H_Step \/ H_Verify
    \/ S_Act \/ S_Screenshot
    \/ F_Validate \/ F_Agent \/ F_Catch
    \/ B_InitBrowser \/ B_Close
    \/ T_New \/ T_InitBrowser \/ T_Body
    \/ \E by \in Signals \cup {"finally"} : T_Cleanup(by)
    \/ \E i \in DOMAIN cleanups : T_CloseReturns(i)
    \/ X_EnvCheck \/ X_InitBrowser \/ X_LoginAttempt \/ X_Verify \/ X_Fill
    \/ X_Submit \/ X_Rates \/ X_WriteResults \/ X_Catch \/ X_Finally
    \/ I_EnvCheck \/ I_After
    \/ M_EnvCheck \/ M_InitBrowser \/ M_LoginAttempt \/ M_Verify \/ M_Fill
    \/ M_Submit \/ M_Rates \/ M_Summary \/ M_Catch \/ M_Sigint
    \/ A_New \/ A_Body \/ A_Catch \/ A_Finally \/ A_After
    \/ R_ExtractRates

Spec == Init /\ [][Next]_vars

\* the helper called without awaiting the previous call: calls overlap
InitOverlap == Init /\ script = "helper"

NextOverlap ==
    \/ HelperCall
    \/ \E i \in 1..MaxCalls : HelperAgentReturns(i)
    \/ \E i \in 1..MaxCalls, msg \in AgentErrors : HelperAgentThrows(i, msg)
    \/ Tick

SpecOverlap == InitOverlap /\ [][NextOverlap]_vars

-----------------------------------------------------------------------------
(* Properties                                                              *)

CallIds == DOMAIN calls

\* the agent raised a rate-limit-signature error in call i
HitRateLimit(i) ==
    /\ calls[i].allowed
    /\ calls[i].state # "pending"
    /\ calls[i].err # <<>>
    /\ IsRateLimitSignature(calls[i].err)

\* the fallback result: returned, rateLimited = true
IsFallback(c) == c.state = "returned" /\ c.rateLimited

(* C1: after a call allowed at time t, every later call made at a time t'  *)
(* with t' - t < claudeRateLimit is denied: it returns the fallback with   *)
(* rateLimited = true and the agent is not invoked.                        *)
C1_DeniedWithinInterval ==
    \A i, j \in CallIds :
        (i < j /\ calls[i].allowed /\ calls[j].at - calls[i].at < claudeRateLimit)
            => (~calls[j].allowed /\ IsFallback(calls[j]))

C1_Witness ==
    \E i, j \in CallIds :
        /\ i < j /\ calls[i].allowed /\ calls[i].state = "returned"
        /\ calls[j].at > calls[i].at
        /\ calls[j].at - calls[i].at < claudeRateLimit
        /\ ~calls[j].allowed

(* C2 as stated: a call made once at least claudeRateLimit ms have elapsed *)
(* since the last allowed call is allowed (the agent is invoked),          *)
(* including the first call on a fresh carrier.                            *)
C2_AllowedAfterInterval ==
    \A j \in CallIds :
        (\A i \in CallIds :
            (i < j /\ calls[i].allowed)
                => calls[j].at - calls[i].at >= claudeRateLimit)
            => calls[j].allowed

\* the time after an allowed call during which the helper denies
MinimumWait(i) ==
    IF HitRateLimit(i) THEN 2 * claudeRateLimit ELSE claudeRateLimit

(* C2 amended: a call is allowed once at least claudeRateLimit ms have     *)
(* elapsed since every earlier allowed call, and at least twice that since *)
(* every earlier allowed call that ended in a rate-limit-signature error.  *)
C2_AllowedAfterIntervalOrCooldown ==
    \A j \in CallIds :
        (\A i \in CallIds :
            (i < j /\ calls[i].allowed)
                => calls[j].at - calls[i].at >= MinimumWait(i))
            => calls[j].allowed

C2_Witness ==
    /\ Len(calls) >= 2
    /\ calls[1].allowed /\ ~HitRateLimit(1)
    /\ calls[2].at - calls[1].at = claudeRateLimit
    /\ calls[2].allowed

(* C4: when the agent call fails with a rate-limit signature the helper    *)
(* returns the fallback (rateLimited = true) without throwing, the         *)
(* recorded timestamp lies the cooldown after the start of the failed      *)
(* call, and every later call less than claudeRateLimit ms after that      *)
(* start is denied.                                                        *)
C4_RateLimitErrorCoolsDown ==
    \A i \in CallIds :
        HitRateLimit(i) =>
            /\ IsFallback(calls[i])
            /\ lastClaudeCall >= calls[i].at + claudeRateLimit
            /\ \A j \in CallIds :
                 (i < j /\ calls[j].at - calls[i].at < claudeRateLimit)
                    => ~calls[j].allowed

C4_Witness ==
    \E i, j \in CallIds :
        /\ i < j /\ HitRateLimit(i)
        /\ calls[j].at - calls[i].at >= claudeRateLimit
        /\ ~calls[j].allowed /\ IsFallback(calls[j])

LoginCalls == Count("hybridLogin", trace)

(* C3: when the operation fails on every attempt, retryOperation invokes   *)
(* it exactly maxAttempts times and ends by throwing; the login loops      *)
(* invoke hybridLogin exactly maxLoginAttempts times when it always throws *)
(* and end in a failure; neither loop ever makes more attempts.            *)
C3_ExactlyNAttempts ==
    /\ Count("ok", rTrace) + Count("fail", rTrace) <= maxAttempts
    /\ (rPc = "done" /\ Count("ok", rTrace) = 0)
          => (Count("fail", rTrace) = maxAttempts /\ rOutcome.kind = "thrown")
    /\ LoginCalls <= maxLoginAttempts
    /\ (failed.stage = "login")
          => /\ LoginCalls = maxLoginAttempts
             /\ ~loginSuccess
             /\ outcome.kind # "returned"
             /\ (exited /\ ~Interrupted) => exitCode # 0

C3_Witness ==
    /\ rPc = "done"
    /\ maxAttempts = MaxAttemptsBound
    /\ Count("fail", rTrace) = maxAttempts
    /\ rOutcome.kind = "thrown"

Shots == Count("takeScreenshot", trace) + Count("takeScreenshot!", trace)

Closes == Count("close", trace) + Count("close!", trace)

\* the stages of the pipeline in the order they run
StageOrder ==
    <<"initBrowser", "hybridLogin", "verifyBookingPage", "fillBookingForm",
      "submitBookingForm", "extractRates">>

\* the position in StageOrder of the stage recorded as failed, 0 if none is
FailedIndex ==
    LET name == IF failed.stage = "login" THEN "hybridLogin" ELSE failed.stage
        at == {k \in DOMAIN StageOrder : StageOrder[k] = name}
    IN IF at = {} THEN 0 ELSE CHOOSE k \in at : TRUE

\* no call in the run made writeFile, takeScreenshot or close fail
NoSideFailure ==
    /\ Count("writeFile!", trace) = 0
    /\ Count("takeScreenshot!", trace) = 0
    /\ Count("close!", trace) = 0

Ended == outcome.kind # "running"

(* C5: when a stage of extractMaerskRates fails after its predecessors     *)
(* succeeded, no later stage is started, takeScreenshot is called exactly  *)
(* once for the failure, carrier.close is called exactly once, and the     *)
(* run ends in a failure carrying the failing stage's error.               *)
C5_HaltSnapshotOnceTeardownOnce ==
    (script \in ExtractScripts /\ Ended /\ NoSideFailure /\ FailedIndex >= 2)
        => /\ \A k \in DOMAIN StageOrder :
                k > FailedIndex => Count(StageOrder[k], trace) = 0
           /\ Shots = 1
           /\ Closes = 1
           /\ outcome = Completion(failed.err)

(* C6: in every run in which the carrier was created, carrier.close is     *)
(* executed before the run ends.                                           *)
C6_TeardownBeforeEnd ==
    ((Ended \/ exited) /\ ~Interrupted /\ carrier # "undefined")
        => Closes >= 1

(* C7: when carrier.close throws, the reported outcome is the one of the   *)
(* same run with a close that succeeded: a run without failure still       *)
(* returns and no run reports the error of close.                          *)
C7_TeardownErrorNotReported ==
    (Ended /\ Count("close!", trace) > 0)
        => /\ outcome.err # "E_close"
           /\ failed = NoFailure => outcome.kind = "returned"

(* C8: when a stage fails and the takeScreenshot taken for that failure    *)
(* throws, the error that reaches the caller is the original stage error.  *)
C8_SnapshotErrorNotMasking ==
    (/\ script \in ExtractScripts \cup {"advanced"}
     /\ Ended
     /\ failed # NoFailure
     /\ Count("takeScreenshot!", trace) > 0
     /\ Count("writeFile!", trace) = 0
     /\ Count("close!", trace) = 0)
        => outcome = Completion(failed.err)

\* the calls of writeFile made so far, in order
Writes == SelectSeq(trace, LAMBDA e : e \in {"writeFile", "writeFile!"})

LastWriteSucceeded == Writes # <<>> /\ Writes[Len(Writes)] = "writeFile"

\* the written document agrees with the way the run ended
DocumentMatchesOutcome ==
    /\ doc.written
    /\ doc.success \in BOOLEAN
    /\ doc.success <=> outcome.kind = "returned"
    /\ outcome.kind = "thrown" => (doc.error # None /\ doc.error = outcome.err)

FullSuccess ==
    {"login", "verifyBookingPage", "fillBookingForm", "submitBookingForm",
     "extractRates"} \subseteq succeeded

(* C10: an entry-point script exits with code 0 only when the full         *)
(* pipeline succeeded, and any unrecoverable failure yields a non-zero     *)
(* exit code.                                                              *)
C10_ExitCodeContract ==
    (script \in {"index", "main"} /\ exited /\ ~Interrupted)
        => /\ exitCode = 0 => FullSuccess
           /\ failed # NoFailure => exitCode # 0

StageEvents == {StageOrder[k] : k \in DOMAIN StageOrder}

StageIndex(ev) == CHOOSE k \in DOMAIN StageOrder : StageOrder[k] = ev

(* C11: the stages start in the order login, verifyBookingPage,            *)
(* fillBookingForm, submitBookingForm, extractRates, none but the login    *)
(* more than once, and each only after its predecessor reported success:   *)
(* verifyBookingPage after hybridLogin returned true, fillBookingForm with *)
(* hasBookingForm and hasLocationFields, submitBookingForm with            *)
(* formResult.canContinue, extractRates with submitResult.success.         *)
C11_StagesInOrderAfterSuccess ==
    script \in ExtractScripts \cup {"main"} =>
        /\ \A i, j \in DOMAIN trace :
             (i < j /\ trace[i] \in StageEvents /\ trace[j] \in StageEvents)
                => \/ StageIndex(trace[i]) < StageIndex(trace[j])
                   \/ trace[i] = "hybridLogin" /\ trace[j] = "hybridLogin"
        /\ Count("verifyBookingPage", trace) > 0 => loginSuccess
        /\ Count("fillBookingForm", trace) > 0
              => /\ pageAnalysis.returned
                 /\ pageAnalysis.hasBookingForm
                 /\ pageAnalysis.hasLocationFields
        /\ Count("submitBookingForm", trace) > 0
              => formResult.returned /\ formResult.canContinue
        /\ Count("extractRates", trace) > 0
              => submitResult.returned /\ submitResult.success

C11_Witness ==
    /\ script \in ExtractScripts \cup {"main"}
    /\ LoginCalls = maxLoginAttempts
    /\ Count("extractRates", trace) = 1

\* a variable the script or the carrier constructor requires is not set
MissingRequired ==
    \/ ~env.MAERSK_USERNAME \/ ~env.MAERSK_PASSWORD
    \/ ~env.ANTHROPIC_API_KEY
    \/ script = "main" /\ ~env.OPENAI_API_KEY

\* the calls that reach the browser or the agent
ExternalCalls ==
    {"initBrowser", "hybridLogin", "wait3000", "verifyBookingPage",
     "fillBookingForm", "submitBookingForm", "extractRates", "automation",
     "takeScreenshot", "takeScreenshot!", "close", "close!"}

C17_InterruptRunsTeardown ==
    (Interrupted /\ exited /\ HasStagehand(carrier))
        => \E i, j \in DOMAIN trace :
              i < j /\ trace[i] = "SIGINT" /\ trace[j] \in {"close", "close!"}

(* C13: the helper's outcome tells 'rate limited, used fallback' from      *)
(* 'succeeded': rateLimited = false exactly when the agent was invoked and *)
(* completed without error, rateLimited = true when the call was denied or *)
(* the agent raised a rate-limit-signature error, and a denied call        *)
(* returns at once, without waiting and without invoking the agent.        *)
C13_OutcomeTellsFallbackFromSuccess ==
    \A i \in CallIds :
        /\ calls[i].state = "returned"
              => /\ ~calls[i].rateLimited
                      <=> (calls[i].allowed /\ calls[i].err = <<>>)
                 /\ calls[i].rateLimited
                      <=> (~calls[i].allowed \/ HitRateLimit(i))
        /\ calls[i].state = "thrown"
              => (calls[i].allowed /\ calls[i].err # <<>> /\ ~HitRateLimit(i))
        /\ ~calls[i].allowed
              => /\ IsFallback(calls[i])
                 /\ calls[i].endAt = calls[i].at
                 /\ calls[i].err = <<>>

C13_Witness ==
    \E i, j, k \in CallIds :
        /\ calls[i].state = "returned" /\ ~calls[i].rateLimited
        /\ ~calls[j].allowed /\ calls[j].rateLimited
        /\ HitRateLimit(k) /\ calls[k].rateLimited

\* call i was allowed and its agent call has returned or thrown
Completed(i) == calls[i].allowed /\ calls[i].state # "pending"

(* C19 as stated: after an allowed call that returns, throws a rate-limit  *)
(* error or throws any other error, lastClaudeCall is at least the time    *)
(* at which the call started, so a call made immediately afterwards is     *)
(* denied.                                                                 *)
C19_DeniedRightAfterAnyCall ==
    \A i \in CallIds :
        Completed(i) =>
            /\ lastClaudeCall >= calls[i].at
            /\ \A j \in CallIds :
                 (j = i + 1 /\ calls[j].at = calls[i].endAt)
                    => ~calls[j].allowed

(* C19 amended: after an allowed call, however it ended, lastClaudeCall is *)
(* at least the time at which the call started, and a call made right      *)
(* after it ended is denied when the call lasted less than claudeRateLimit.*)
C19_TimestampKeptByEveryAttempt ==
    \A i \in CallIds :
        Completed(i) =>
            /\ lastClaudeCall >= calls[i].at
            /\ \A j \in CallIds :
                 (/\ j = i + 1
                  /\ calls[j].at = calls[i].endAt
                  /\ calls[i].endAt - calls[i].at < claudeRateLimit)
                    => ~calls[j].allowed

C19_Witness ==
    \E i, j \in CallIds :
        /\ j = i + 1
        /\ calls[i].state = "thrown"
        /\ calls[i].endAt > calls[i].at
        /\ calls[j].at = calls[i].endAt
        /\ ~calls[j].allowed

\* call i was still awaiting the agent when call j started
AwaitingWhenStarted(i, j) ==
    /\ i < j
    /\ calls[i].allowed
    /\ calls[i].state = "pending" \/ calls[i].endAt > calls[j].at

(* C20: of two calls to the helper on the same carrier that start within   *)
(* claudeRateLimit of each other, the second while the first is still      *)
(* awaiting the agent, at most one passes the interval check.              *)
C20_AtMostOneOfTwoOverlapping ==
    \A i, j \in CallIds :
        (AwaitingWhenStarted(i, j) /\ calls[j].at - calls[i].at < claudeRateLimit)
            => ~calls[j].allowed

(* C14: when a retry loop gives up after its last attempt, the error it    *)
(* throws wraps the last underlying error together with the action         *)
(* identifier and the attempt count, in retryOperation and in the login    *)
(* loops of main and extractMaerskRates.                                   *)
C14_ExhaustionErrorHasContext ==
    /\ (rPc = "done" /\ rOutcome.kind = "thrown")
          => /\ rOutcome.last = rLastError
             /\ rOutcome.attempts = maxAttempts
             /\ "action" \in DOMAIN rOutcome
    /\ (failed.stage = "login" /\ Ended /\ NoSideFailure)
          => /\ outcome.kind = "thrown"
             /\ outcome.err # failed.err

(* C15: when the operation fails on attempts 1..k-1 and succeeds on        *)
(* attempt k <= maxAttempts, retryOperation returns the result of attempt  *)
(* k, throws nothing and makes exactly k attempts; a login loop whose      *)
(* hybridLogin succeeds ends without a login failure.                      *)
C15_TransientFailureAbsorbed ==
    /\ Count("ok", rTrace) <= 1
    /\ Count("ok", rTrace) = 1
          => /\ rPc = "done"
             /\ rTrace[Len(rTrace)] = "ok"
             /\ rOutcome.kind = "returned"
             /\ rOutcome.attempts = Count("fail", rTrace) + 1
             /\ rOutcome.attempts <= maxAttempts
    /\ loginSuccess
          => /\ "login" \in succeeded
             /\ failed.stage # "login"
             /\ LoginCalls <= maxLoginAttempts

C15_Witness ==
    /\ rPc = "done"
    /\ maxAttempts > 1
    /\ Count("fail", rTrace) = maxAttempts - 1
    /\ rOutcome.kind = "returned"

\* the time waited between positions i and j of the trace
WaitedBetween(i, j) ==
    loginRetryDelayMs
        * Cardinality({k \in i..j : trace[k] = "wait3000"})

(* C16: a rate-limit-signature error raised by the agent during a stage,   *)
(* the login included, never surfaces as an error and is never retried     *)
(* before the cooldown has passed.                                         *)
C16_StageRateLimitErrorAbsorbed ==
    /\ outcome.kind = "thrown" => ~IsRateLimitError(outcome.err)
    /\ \A i, j \in DOMAIN trace :
          (i < j /\ trace[i] = "rateLimitError" /\ trace[j] = "hybridLogin")
              => WaitedBetween(i, j) >= claudeRateLimit

DeniedBetween(i, k) == \A j \in CallIds : (i < j /\ j < k) => ~calls[j].allowed

C29_DeniedCallKeepsTimestamp ==
    /\ [][(/\ Len(calls') = Len(calls) + 1
            /\ ~calls'[Len(calls')].allowed)
              => lastClaudeCall' = lastClaudeCall]_vars
    /\ [](\A i, k \in CallIds :
            (/\ i < k
             /\ calls[i].allowed /\ calls[i].state = "returned"
             /\ ~HitRateLimit(i)
             /\ DeniedBetween(i, k)
             /\ calls[k].at - calls[i].at >= claudeRateLimit)
                => calls[k].allowed)

C29_Witness ==
    \E i, j, k \in CallIds :
        /\ i < j /\ j < k
        /\ calls[i].allowed /\ calls[i].state = "returned"
        /\ ~HitRateLimit(i)
        /\ ~calls[j].allowed /\ calls[j].at > calls[i].at
        /\ DeniedBetween(i, k)
        /\ calls[k].at - calls[i].at = claudeRateLimit
        /\ calls[k].allowed


(* C28: when extractMaerskRates fails, the error it throws is the original *)
(* error, also when writing the error document fails, and the error        *)
(* document, when written, carries the original error's message.           *)
C28_OriginalErrorRethrown ==
    (/\ script \in ExtractScripts
     /\ Ended
     /\ failed # NoFailure
     /\ Count("takeScreenshot!", trace) = 0
     /\ Count("close!", trace) = 0)
        => /\ outcome = Completion(failed.err)
           /\ LastWriteSucceeded => doc = ErrorDocument(failed.err)


\* the number of failed attempts among the first k entries of rTrace
FailsUpTo(k) == Cardinality({m \in 1..k : rTrace[m] = "fail"})

(* C21: retryOperation sleeps exactly when attempts remain: every failed   *)
(* attempt but the last is directly followed by one delay, each of the     *)
(* same length delayMs, nothing follows a successful attempt or the final  *)
(* failed attempt; the login loops wait once after each failed attempt     *)
(* but the last and never after a success.                                 *)
C21_DelayIffAttemptsRemain ==
    /\ \A k \in DOMAIN rTrace :
          /\ rTrace[k] = "delay" => (k > 1 /\ rTrace[k - 1] = "fail")
          /\ (rTrace[k] = "fail" /\ FailsUpTo(k) < maxAttempts)
                => (k < Len(rTrace) /\ rTrace[k + 1] = "delay")
          /\ (rTrace[k] = "fail" /\ FailsUpTo(k) = maxAttempts)
                => k = Len(rTrace)
          /\ rTrace[k] = "ok" => k = Len(rTrace)
    /\ Len(rDelays) = Count("delay", rTrace)
    /\ \A k \in DOMAIN rDelays : rDelays[k] = delayMs
    /\ rPc = "done" => Len(rDelays) = Count("fail", rTrace) + Count("ok", rTrace) - 1
    /\ (script \in ExtractScripts \cup {"main"} /\ LoginCalls > 0)
          => /\ Count("wait3000", trace) \in {LoginCalls - 1, LoginCalls}
             /\ (loginSuccess \/ failed.stage = "login")
                   => Count("wait3000", trace) = LoginCalls - 1
    /\ \A k \in DOMAIN trace :
          trace[k] = "wait3000" => Count("hybridLogin", SubSeq(trace, 1, k)) < maxLoginAttempts

C21_Witness ==
    /\ rPc = "done"
    /\ maxAttempts = MaxAttemptsBound
    /\ rOutcome.kind = "thrown"
    /\ rDelays = [k \in 1..(maxAttempts - 1) |-> delayMs]
    /\ rTrace[Len(rTrace)] = "fail"


\* the outcomes of the hybridLogin calls made by the loop, in order
LoopResults ==
    SelectSeq(trace, LAMBDA e : e \in {OutcomeEvent(o) : o \in LoopOutcomes})

LoopErrors == {o.err : o \in {x \in LoopOutcomes : x.ret = "throw"}}

(* C25: the login loop ends after at most maxLoginAttempts calls of        *)
(* hybridLogin whatever each call does (returns true, returns false,       *)
(* throws): it stops at the first true, it rethrows the error of the final *)
(* attempt when that attempt throws, and it waits 3000 ms only after an    *)
(* attempt but the last has thrown.                                        *)
C25_LoginLoopBounded ==
    /\ LoginCalls <= maxLoginAttempts
    /\ script = "loop" =>
          /\ Len(LoopResults) = LoginCalls
          /\ LoginCalls = maxLoginAttempts => pc = "done"
          /\ \A k \in DOMAIN LoopResults :
                /\ LoopResults[k] = "true"
                      => /\ k = Len(LoopResults)
                         /\ pc = "done" /\ loginSuccess
                         /\ outcome = Completion(None)
                /\ (LoopResults[k] \in LoopErrors /\ k = maxLoginAttempts)
                      => /\ pc = "done"
                         /\ outcome = Completion(LoopResults[k])
                /\ (k < Len(LoopResults) /\ k < maxLoginAttempts)
                      => LoopResults[k] # "true"
          /\ Count("wait3000", trace)
                = Cardinality({k \in DOMAIN LoopResults :
                     LoopResults[k] \in LoopErrors /\ k < maxLoginAttempts})
          /\ \A k \in DOMAIN trace :
                trace[k] = "wait3000"
                   => \E m \in 1..(k - 1) :
                         /\ trace[m] \in LoopErrors
                         /\ \A n \in (m + 1)..(k - 1) : trace[n] = "rateLimitError"
          /\ pc = "done" => (outcome.kind = "returned" <=> loginSuccess)

C25_Witness ==
    /\ script = "loop"
    /\ pc = "done"
    /\ LoopResults = <<"false", "E_login">>
    /\ outcome = Completion("E_login")
    /\ Count("wait3000", trace) = 0


(* C22: hybridLogin of the Stagehand carrier never returns false: it       *)
(* returns true, and only when the URL read after navigating to the        *)
(* booking page contains 'maersk.com' and neither 'accounts.maersk.com'    *)
(* nor 'login', or it throws; so the login loops of the pipelines never    *)
(* see a false result and every retry follows a thrown error.              *)
C22_LoginTrueOrThrows ==
    /\ loginResult \in {None, "true"}
    /\ (script = "login" /\ pc = "done")
          => /\ outcome.kind \in {"returned", "thrown"}
             /\ outcome.kind = "returned" <=> loginResult = "true"
             /\ outcome.kind = "returned"
                   => /\ trace[Len(trace)] = "page.goto"
                      /\ Includes(currentUrl, StrMaersk)
                      /\ ~Includes(currentUrl, StrAccounts)
                      /\ ~Includes(currentUrl, StrLogin)
             /\ (trace[Len(trace)] = "page.goto" /\ outcome.kind = "thrown")
                   => \/ ~Includes(currentUrl, StrMaersk)
                      \/ Includes(currentUrl, StrAccounts)
                      \/ Includes(currentUrl, StrLogin)
    /\ \A o \in HybridLoginOutcomes : o.ret \in {"true", "throw"}
    /\ script \in ExtractScripts \cup {"main"}
          => /\ pc # "m_returned"
             /\ failed.err # "E_all_logins_failed"
             /\ (LoginCalls = maxLoginAttempts \/ failed.stage = "login")
                   => Count("wait3000", trace) = 1

C22_Witness ==
    /\ script = "login"
    /\ pc = "done"
    /\ currentUrl = UrlPortalLogin
    /\ outcome = Completion("E_verification")

(* C23: in hybridLogin (open the login page, fill the credentials,         *)
(* submit) and in submitBookingForm the agent is invoked for a step        *)
(* exactly when the direct browser action of that step failed, and the     *)
(* step - for submitBookingForm the call as a whole - fails only when the  *)
(* direct action and the agent fallback both failed.                       *)
C23_AgentOnlyAfterDirectFailure ==
    /\ \A step \in FallbackSteps :
          /\ Count(AgentEvent(step, TRUE), trace)
               + Count(AgentEvent(step, FALSE), trace)
                  = Count(DirectEvent(step, FALSE), trace)
          /\ Count(AgentEvent(step, FALSE), trace) > 0
                => (pc = "done" /\ outcome.kind = "thrown")
    /\ (script = "login" /\ outcome.kind = "thrown"
           /\ Count("page.goto!", trace) = 0 /\ currentUrl = <<>>)
          => \E step \in FallbackSteps :
                /\ Count(DirectEvent(step, FALSE), trace) = 1
                /\ Count(AgentEvent(step, FALSE), trace) = 1
    /\ (script = "submit" /\ outcome.kind = "thrown")
          => /\ Count(DirectEvent("act", FALSE), trace) = 1
             /\ Count(AgentEvent("act", FALSE), trace) = 1


(* C24: validate returns the empty list exactly when origin and            *)
(* destination each have a city and a country, there is at least one       *)
(* container, the commodity is not blank and readyDate is set; with a      *)
(* non-empty list fillBookingForm issues no agent instruction and throws   *)
(* the validation error.                                                   *)
C24_InvalidBookingNeverReachesAgent ==
    LET HasCityAndCountry(l) == l.set /\ Len(l.city) > 0 /\ Len(l.country) > 0
        NonBlank(str) == \E k \in DOMAIN str : str[k] \notin Whitespace
        AgentInstructions ==
            Count("agent.execute(form)", trace)
                + Count("agent.execute(form)!", trace)
    IN
    script = "fill" =>
        /\ Validate(booking) = <<>>
              <=> /\ HasCityAndCountry(booking.origin)
                  /\ HasCityAndCountry(booking.destination)
                  /\ booking.containers.set /\ booking.containers.length >= 1
                  /\ NonBlank(booking.commodity)
                  /\ booking.readyDate
        /\ Validate(booking) # <<>>
              => /\ AgentInstructions = 0
                 /\ pc = "done" => outcome = Completion("E_validation")


(* C26: in test-rate-extraction carrier.close is invoked at most once for  *)
(* the carrier the run created, however the cleanup of the finally block   *)
(* and the SIGINT and SIGTERM handlers interleave, a signal arriving       *)
(* while a cleanup is awaiting close included.                             *)
C26_CloseAtMostOnce ==
    script = "test" => Count("close", trace) <= 1

(* C27: on the Browser Use carrier, over any sequence of initBrowser and   *)
(* close calls, at most one agent's browser context is live, close never   *)
(* throws, and when close has returned this.agent is null.                 *)
C27_OneLiveContext ==
    script = "browseruse" =>
        /\ Cardinality(contexts) <= 1
        /\ Count("close", trace) = Count("close returned", trace)
        /\ (trace # <<>> /\ trace[Len(trace)] = "close returned")
              => agent = NoAgent

=============================================================================
